---- MODULE Spec2Model ----
(***************************************************************************)
(* Session lifecycle of the sentinel-dvpnx node: the handshake handler     *)
(* that admits a session, the Session Store (gorm over sqlite), the four   *)
(* session workers (usage sync with database, usage sync with blockchain,  *)
(* usage validate, session validate), the peer helpers of the core Context *)
(* and its serialized BroadcastTx.                                         *)
(*                                                                         *)
(* The ledger and the VPN service are external: the model keeps what the   *)
(* node can observe of them (a session's status and recorded usage, the    *)
(* peer set with its counters) and lets every call to them fail.           *)
(***************************************************************************)
EXTENDS Integers, Sequences, FiniteSets, TLC

----------------------------------------------------------------------------
(* Bounds of the model.                                                    *)

MaxTime == 2
MaxTraffic == 2
MaxRestarts == 1
MaxAdmissions == 3

----------------------------------------------------------------------------
(* Inputs.                                                                 *)

\* Ledger session ids a client can name.  Sessions 1 and 2 are bound to this
\* node; session 3 is bound to another node.
SessionIds == {1, 2, 3}
LocalIds == {1, 2}
NodeAddr == "node"
OtherNodeAddr == "other"
Accounts == {"acc1", "acc2"}
ServiceTypes == {"wireguard", "v2ray"}
\* Peer-connection payloads.  d1 and d2 are two encodings of the same key,
\* d3 and d4 carry a key of their own.
Payloads == {"d1", "d2", "d3", "d4"}
\* Concurrent HTTP handler invocations.
Reqs == {"r1", "r2"}

\* A nil pointer: no session, no record.
Nil == [ nil |-> TRUE ]
NoHolder == "free"
StatusActive == "active"
StatusInactive == "inactive"

KeyOf(data) == IF data = "d3" THEN "kB" ELSE IF data = "d4" THEN "kC" ELSE "kA"

\* Quota ceilings the ledger carries for each session (zero means unlimited):
\* session 1 has a byte ceiling and a duration ceiling, session 2 has none.
LedgerMaxBytes(id) == IF id = 1 THEN 2 ELSE 0
LedgerMaxDuration(id) == IF id = 1 THEN 2 ELSE 0
LedgerNodeAddress(id) == IF id \in LocalIds THEN NodeAddr ELSE OtherNodeAddr
LedgerAccAddress(id) == "acc1"

----------------------------------------------------------------------------
(* State.                                                                  *)

VARIABLES
    now,          \* wall clock
    serviceType,  \* the service selected at startup
    restarts,     \* process restarts so far
    admissions,   \* handshake requests received so far
    ledger,       \* ledger session of each local id: Nil or [status, upload, download]
    peers,        \* peers of the running service: peer id -> [rx, tx, updated_at]
    store,        \* Session Store: set of session records
    req,          \* handshake handler invocations
    collector,    \* session_usage_sync_with_database tick
    publisher,    \* session_usage_sync_with_blockchain tick
    enforcer,     \* session_usage_validate tick
    reconciler,   \* session_validate tick
    txm,          \* holder of the transaction mutex, NoHolder when free
    tx,           \* BroadcastTx calls of the other ledger writers
    inflight,     \* callers whose transaction is submitted and not yet confirmed
    dirty,        \* ids whose counters changed since the Publisher last read the Store
    published,    \* TRUE when the last Publisher tick was confirmed by the ledger
    scheduler,    \* the cron scheduler: its state and the loop of each registered job
    rejected,     \* TRUE when the last BroadcastTx of the Publisher returned an error
    core          \* the core Context: its RWMutex fm, rpcAddrs and the calls in progress

vars == << now, serviceType, restarts, admissions, ledger, peers, store, req,
           collector, publisher, enforcer, reconciler, txm, tx, inflight,
           dirty, published, scheduler, rejected, core >>

----------------------------------------------------------------------------
(* Decimal strings: counters are stored as math.Int.String().              *)

RECURSIVE IntString(_)
IntString(n) == IF n < 10 THEN << n >> ELSE Append(IntString(n \div 10), n % 10)

RECURSIVE NewIntFromString(_)
NewIntFromString(s) ==
    IF Len(s) = 0 THEN 0
    ELSE 10 * NewIntFromString(SubSeq(s, 1, Len(s) - 1)) + s[Len(s)]

\* base64.StdEncoding.EncodeToString of the payload bytes (injective).
Base64(data) == << "b64", data >>

----------------------------------------------------------------------------
(* Session Store.                                                          *)

\* A record built without the ledger session's ceilings.
NewSessionUnlimited(id, data, peerID, type, maxBytes, maxDuration, createdAt) ==
    [ id           |-> id,
      node_addr    |-> NodeAddr,
      peer_id      |-> peerID,
      peer_request |-> Base64(data),
      service_type |-> type,
      rx_bytes     |-> IntString(0),
      tx_bytes     |-> IntString(0),
      duration     |-> 0,
      max_bytes    |-> IntString(0),
      max_duration |-> 0,
      created_at   |-> createdAt,
      updated_at   |-> createdAt ]

\* models.Session built by the handshake handler; created_at and updated_at
\* are set by gorm (autoCreateTime, autoUpdateTime) when the row is created.
NewSession(id, data, peerID, type, maxBytes, maxDuration, createdAt) ==
    [ id           |-> id,
      node_addr    |-> NodeAddr,
      peer_id      |-> peerID,
      peer_request |-> Base64(data),
      service_type |-> type,
      rx_bytes     |-> IntString(0),
      tx_bytes     |-> IntString(0),
      duration     |-> 0,
      max_bytes    |-> IntString(maxBytes),
      max_duration |-> maxDuration,
      created_at   |-> createdAt,
      updated_at   |-> createdAt ]

GetRxBytes(s) == NewIntFromString(s.rx_bytes)
GetTxBytes(s) == NewIntFromString(s.tx_bytes)
GetTotalBytes(s) == GetRxBytes(s) + GetTxBytes(s)
GetMaxBytes(s) == NewIntFromString(s.max_bytes)

\* A query is an attribute-equality map.
applyQuery(st, query) ==
    { s \in st : \A k \in DOMAIN query : s[k] = query[k] }

SessionFind(st, query) == applyQuery(st, query)

\* db.First: the first match in primary-key order, Nil when there is none.
SessionFindOne(st, query) ==
    LET found == applyQuery(st, query)
    IN  IF found = {} THEN Nil
        ELSE CHOOSE s \in found : \A o \in found : s.id <= o.id

\* The table's constraints: id is the primary key, the peer column carries
\* a unique index.
ViolatesConstraint(st, item) ==
    \E s \in st : s.id = item.id \/ s.peer_id = item.peer_id

\* db.Create on a table declared without the primary key and the unique
\* index: every insert succeeds.
SessionInsertOneUnconstrained(st, item) ==
    [ ok |-> TRUE, store |-> st \cup {item} ]

\* db.Create: fails on a constraint violation and leaves the table as it was.
SessionInsertOne(st, item) ==
    IF ViolatesConstraint(st, item)
    THEN [ ok |-> FALSE, store |-> st ]
    ELSE [ ok |-> TRUE,  store |-> st \cup {item} ]

\* gorm Statement.Changed on the counter columns: an update value differs
\* from the value of the loaded model.
Changed(s, updates) ==
    \/ s.rx_bytes # updates.rx_bytes
    \/ s.tx_bytes # updates.tx_bytes

\* A hook that recomputes the duration on every update.
BeforeUpdateAlways(s, updates, t) ==
    [ updates EXCEPT !.set_duration = TRUE, !.duration = t - s.created_at ]

\* Session.BeforeUpdate: the columns the UPDATE statement sets.
BeforeUpdate(s, updates, t) ==
    IF s.id = 0 THEN [ updates EXCEPT !.set_duration = FALSE ]
    ELSE IF Changed(s, updates)
         THEN [ updates EXCEPT !.set_duration = TRUE, !.duration = t - s.created_at ]
         ELSE [ updates EXCEPT !.set_duration = FALSE ]

\* db.Model(session).Updates(updates): UPDATE ... WHERE id = session.id;
\* gorm sets updated_at in every update.
ApplyUpdates(st, s, updates, t) ==
    LET u == BeforeUpdate(s, updates, t)
    IN  { IF r.id = s.id
          THEN [ r EXCEPT !.rx_bytes = u.rx_bytes,
                          !.tx_bytes = u.tx_bytes,
                          !.duration = IF u.set_duration THEN u.duration ELSE @,
                          !.updated_at = t ]
          ELSE r : r \in st }

\* db.Model(session).Delete(nil): DELETE ... WHERE id = session.id.
ApplyDelete(st, s) == { r \in st : r.id # s.id }

\* SessionFindOneAndUpdate run without interruption: a query that matches
\* no record is an error.
SessionFindOneAndUpdate(st, query, updates, t) ==
    LET session == SessionFindOne(st, query)
    IN  IF session = Nil
        THEN [ err |-> TRUE, session |-> Nil, store |-> st ]
        ELSE [ err |-> FALSE, session |-> session,
               store |-> ApplyUpdates(st, session, updates, t) ]

\* SessionFindOneAndDelete run without interruption.
SessionFindOneAndDelete(st, query) ==
    LET session == SessionFindOne(st, query)
    IN  IF session = Nil
        THEN [ err |-> TRUE, session |-> Nil, store |-> st ]
        ELSE [ err |-> FALSE, session |-> session, store |-> ApplyDelete(st, session) ]

----------------------------------------------------------------------------
(* VPN service and ledger as the node observes them.                       *)

NoPeers == [ p \in {} |-> 0 ]

\* Peer identifiers are backend-specific: every protocol names its peers in
\* its own format.
PeerIdOf(data, type) == << type, KeyOf(data) >>

PeersLen(ps) == Cardinality(DOMAIN ps)
MaxPeers == 2

HasPeer(ps, id) == id \in DOMAIN ps

\* Service.AddPeer: the peer is live afterwards; a peer that is already
\* live keeps its counters.
AddPeer(ps, id, t) ==
    IF id \in DOMAIN ps THEN ps
    ELSE [ p \in DOMAIN ps \cup {id} |->
             IF p = id THEN [ rx |-> 0, tx |-> 0, updated_at |-> t ] ELSE ps[p] ]

\* Service.RemovePeer.
RemovePeer(ps, id) == [ p \in DOMAIN ps \ {id} |-> ps[p] ]

\* Client.Session: the ledger's record of a session, Nil when it has none.
LedgerSession(lg, id) ==
    IF id \in LocalIds
    THEN IF lg[id] = Nil THEN Nil
         ELSE [ status |-> lg[id].status, node |-> LedgerNodeAddress(id),
                acc |-> LedgerAccAddress(id),
                upload |-> lg[id].upload, download |-> lg[id].download,
                max_bytes |-> LedgerMaxBytes(id),
                max_duration |-> LedgerMaxDuration(id) ]
    ELSE [ status |-> StatusActive, node |-> LedgerNodeAddress(id),
           acc |-> LedgerAccAddress(id), upload |-> 0, download |-> 0,
           max_bytes |-> LedgerMaxBytes(id),
           max_duration |-> LedgerMaxDuration(id) ]

----------------------------------------------------------------------------
(* Handshake handler (handlerInitHandshake).  One invocation is a          *)
(* sequence of calls to the service, the Store and the ledger; other       *)
(* invocations and the workers run between them.                           *)

IdleReq == [ pc |-> "idle", id |-> 0, data |-> "", acc |-> "",
             max_bytes |-> 0, max_duration |-> 0, peer_id |-> << >>, code |-> 0 ]

Respond(r, status) ==
    req' = [ req EXCEPT ![r] = [ IdleReq EXCEPT !.pc = "done", !.code = status ] ]
Goto(r, pc) == req' = [ req EXCEPT ![r].pc = pc ]

\* A handler without the peer-limit check.
HandshakeBeginNoLimit(r, ids, datas, accs) ==
    /\ req[r].pc \in {"idle", "done"}
    /\ admissions < MaxAdmissions
    /\ admissions' = admissions + 1
    /\ \E id \in ids, data \in datas, acc \in accs, wellFormed \in BOOLEAN :
         IF ~wellFormed
         THEN req' = [ req EXCEPT ![r] = [ IdleReq EXCEPT !.pc = "done", !.code = 400 ] ]
         ELSE req' = [ req EXCEPT ![r] = [ IdleReq EXCEPT !.pc = "check_id", !.id = id,
                                                          !.data = data, !.acc = acc ] ]
    /\ UNCHANGED << now, serviceType, restarts, ledger, peers, store, collector,
                    publisher, enforcer, reconciler, txm, tx, inflight, dirty, published, scheduler, rejected, core >>

\* Peer-limit check, then parsing and verification of the request.  The
\* request is drawn from the given ids, payloads and accounts.
HandshakeBegin(r, ids, datas, accs) ==
    /\ req[r].pc \in {"idle", "done"}
    /\ admissions < MaxAdmissions
    /\ admissions' = admissions + 1
    /\ \E id \in ids, data \in datas, acc \in accs, wellFormed \in BOOLEAN :
         IF PeersLen(peers) >= MaxPeers
         THEN req' = [ req EXCEPT ![r] = [ IdleReq EXCEPT !.pc = "done", !.code = 409 ] ]
         ELSE IF ~wellFormed
         THEN req' = [ req EXCEPT ![r] = [ IdleReq EXCEPT !.pc = "done", !.code = 400 ] ]
         ELSE req' = [ req EXCEPT ![r] = [ IdleReq EXCEPT !.pc = "check_id", !.id = id,
                                                          !.data = data, !.acc = acc ] ]
    /\ UNCHANGED << now, serviceType, restarts, ledger, peers, store, collector,
                    publisher, enforcer, reconciler, txm, tx, inflight, dirty, published, scheduler, rejected, core >>

\* Is there a record for the session id?
HandshakeCheckID(r) ==
    /\ req[r].pc = "check_id"
    /\ \E dbOK \in BOOLEAN :
         IF ~dbOK THEN Respond(r, 500)
         ELSE IF SessionFindOne(store, [ id |-> req[r].id ]) # Nil THEN Respond(r, 409)
         ELSE Goto(r, "check_peer")
    /\ UNCHANGED << now, serviceType, restarts, admissions, ledger, peers, store,
                    collector, publisher, enforcer, reconciler, txm, tx, inflight,
                    dirty, published, scheduler, rejected, core >>

\* Is there a record for the peer request data?
HandshakeCheckPeerRequest(r) ==
    /\ req[r].pc = "check_peer"
    /\ \E dbOK \in BOOLEAN :
         IF ~dbOK THEN Respond(r, 500)
         ELSE IF SessionFindOne(store, [ peer_request |-> Base64(req[r].data) ]) # Nil
         THEN Respond(r, 409)
         ELSE Goto(r, "query")
    /\ UNCHANGED << now, serviceType, restarts, admissions, ledger, peers, store,
                    collector, publisher, enforcer, reconciler, txm, tx, inflight,
                    dirty, published, scheduler, rejected, core >>

\* A handler that adds the peer as soon as the ledger knows the session,
\* before the checks on the session's status, node and account.
HandshakeQuerySessionEager(r) ==
    /\ req[r].pc = "query"
    /\ \E ledgerOK \in BOOLEAN :
         LET session == LedgerSession(ledger, req[r].id)
             id == PeerIdOf(req[r].data, serviceType)
         IN  IF ~ledgerOK THEN Respond(r, 500) /\ peers' = peers
             ELSE IF session = Nil THEN Respond(r, 404) /\ peers' = peers
             ELSE /\ peers' = AddPeer(peers, id, now)
                  /\ IF session.status # StatusActive THEN Respond(r, 400)
                     ELSE IF session.node # NodeAddr THEN Respond(r, 400)
                     ELSE IF req[r].acc # session.acc THEN Respond(r, 401)
                     ELSE req' = [ req EXCEPT ![r].pc = "insert",
                                              ![r].peer_id = id,
                                              ![r].max_bytes = session.max_bytes,
                                              ![r].max_duration = session.max_duration ]
    /\ UNCHANGED << now, serviceType, restarts, admissions, ledger, store,
                    collector, publisher, enforcer, reconciler, txm, tx, inflight,
                    dirty, published, scheduler, rejected, core >>

\* A handler that does not compare the requesting account with the
\* session's account.
HandshakeQuerySessionAnyAccount(r) ==
    /\ req[r].pc = "query"
    /\ \E ledgerOK \in BOOLEAN :
         LET session == LedgerSession(ledger, req[r].id)
         IN  IF ~ledgerOK THEN Respond(r, 500)
             ELSE IF session = Nil THEN Respond(r, 404)
             ELSE IF session.status # StatusActive THEN Respond(r, 400)
             ELSE IF session.node # NodeAddr THEN Respond(r, 400)
             ELSE req' = [ req EXCEPT ![r].pc = "add_peer",
                                      ![r].max_bytes = session.max_bytes,
                                      ![r].max_duration = session.max_duration ]
    /\ UNCHANGED << now, serviceType, restarts, admissions, ledger, peers, store,
                    collector, publisher, enforcer, reconciler, txm, tx, inflight,
                    dirty, published, scheduler, rejected, core >>

\* Ledger query and the checks on its answer: status, node, account.
HandshakeQuerySession(r) ==
    /\ req[r].pc = "query"
    /\ \E ledgerOK \in BOOLEAN :
         LET session == LedgerSession(ledger, req[r].id)
         IN  IF ~ledgerOK THEN Respond(r, 500)
             ELSE IF session = Nil THEN Respond(r, 404)
             ELSE IF session.status # StatusActive THEN Respond(r, 400)
             ELSE IF session.node # NodeAddr THEN Respond(r, 400)
             ELSE IF req[r].acc # session.acc THEN Respond(r, 401)
             ELSE req' = [ req EXCEPT ![r].pc = "add_peer",
                                      ![r].max_bytes = session.max_bytes,
                                      ![r].max_duration = session.max_duration ]
    /\ UNCHANGED << now, serviceType, restarts, admissions, ledger, peers, store,
                    collector, publisher, enforcer, reconciler, txm, tx, inflight,
                    dirty, published, scheduler, rejected, core >>

\* Service.AddPeer with the request data.
HandshakeAddPeer(r) ==
    /\ req[r].pc = "add_peer"
    /\ \E serviceOK \in BOOLEAN :
         IF ~serviceOK
         THEN /\ Respond(r, 500)
              /\ peers' = peers
         ELSE LET id == PeerIdOf(req[r].data, serviceType)
              IN  /\ peers' = AddPeer(peers, id, now)
                  /\ req' = [ req EXCEPT ![r].pc = "insert", ![r].peer_id = id ]
    /\ UNCHANGED << now, serviceType, restarts, admissions, ledger, store,
                    collector, publisher, enforcer, reconciler, txm, tx, inflight,
                    dirty, published, scheduler, rejected, core >>

\* SessionInsertOne of the new record; an error is answered with 500.
HandshakeInsert(r) ==
    /\ req[r].pc = "insert"
    /\ \E dbOK \in BOOLEAN :
         LET item == NewSession(req[r].id, req[r].data, req[r].peer_id, serviceType,
                                req[r].max_bytes, req[r].max_duration, now)
             res  == SessionInsertOne(store, item)
         IN  IF dbOK /\ res.ok
             THEN /\ store' = res.store
                  /\ Respond(r, 200)
             ELSE /\ store' = store
                  /\ Respond(r, 500)
    /\ UNCHANGED << now, serviceType, restarts, admissions, ledger, peers,
                    collector, publisher, enforcer, reconciler, txm, tx, inflight,
                    dirty, published, scheduler, rejected, core >>

HandshakeSteps(r) ==
    \/ HandshakeCheckID(r)
    \/ HandshakeCheckPeerRequest(r)
    \/ HandshakeQuerySession(r)
    \/ HandshakeAddPeer(r)
    \/ HandshakeInsert(r)

----------------------------------------------------------------------------
(* Environment: time, traffic, the ledger, process restart.                *)

Tick ==
    /\ now < MaxTime
    /\ now' = now + 1
    /\ UNCHANGED << serviceType, restarts, admissions, ledger, peers, store, req,
                    collector, publisher, enforcer, reconciler, txm, tx, inflight,
                    dirty, published, scheduler, rejected, core >>

\* A live peer moves one more byte in one direction.
Traffic ==
    /\ \E p \in DOMAIN peers, dir \in {"rx", "tx"} :
         /\ peers[p].rx + peers[p].tx < MaxTraffic
         /\ peers' = [ peers EXCEPT ![p] =
                         [ rx |-> IF dir = "rx" THEN @.rx + 1 ELSE @.rx,
                           tx |-> IF dir = "tx" THEN @.tx + 1 ELSE @.tx,
                           updated_at |-> now ] ]
    /\ UNCHANGED << now, serviceType, restarts, admissions, ledger, store, req,
                    collector, publisher, enforcer, reconciler, txm, tx, inflight,
                    dirty, published, scheduler, rejected, core >>

\* The ledger ends a session (status change) or drops it; a dropped id is
\* never issued again.
LedgerChange ==
    /\ \E id \in LocalIds :
         /\ ledger[id] # Nil
         /\ \/ /\ ledger[id].status = StatusActive
               /\ ledger' = [ ledger EXCEPT ![id].status = StatusInactive ]
            \/ ledger' = [ ledger EXCEPT ![id] = Nil ]
    /\ UNCHANGED << now, serviceType, restarts, admissions, peers, store, req,
                    collector, publisher, enforcer, reconciler, txm, tx, inflight,
                    dirty, published, scheduler, rejected, core >>

----------------------------------------------------------------------------
(* Peer removal helpers of the core Context.                               *)

\* A helper without the early return: RemovePeer is called whether or not
\* the peer exists.
RemovePeerIfExistsCheckAlways(ps, id, serviceOK) ==
    IF ~serviceOK THEN "error" ELSE "remove"

\* First half of Context.RemovePeerIfExists: the HasPeer call and the early
\* return for a peer that does not exist.
RemovePeerIfExistsCheck(ps, id, serviceOK) ==
    IF ~serviceOK THEN "error"
    ELSE IF ~HasPeer(ps, id) THEN "return"
    ELSE "remove"

\* Context.RemovePeerIfExists run without interruption: the peer sets and
\* errors it can end with.
RemovePeerIfExists(ps, id) ==
    { [ peers |-> ps, err |-> TRUE ] } \cup
    ( IF RemovePeerIfExistsCheck(ps, id, TRUE) = "return"
      THEN { [ peers |-> ps, err |-> FALSE ] }
      ELSE { [ peers |-> RemovePeer(ps, id), err |-> FALSE ] } )

----------------------------------------------------------------------------
(* Worker ticks.  A tick loads its items, runs one sub-operation per item  *)
(* in an errgroup (the first error cancels the group's context; a          *)
(* sub-operation that starts after that returns at once) and waits for     *)
(* all of them.                                                            *)

\* jobCtx.Done() apart from a failed sub-operation: the context the
\* scheduler hands to the handler is cancelled when the scheduler is stopped.
Cancelled == scheduler.state # "started"

IdleWorker == [ pc |-> "idle", err |-> FALSE, items |-> << >>, msgs |-> << >>,
                clean |-> FALSE ]

\* A tick that does not wait for its sub-operations.
FinishedAny(w) == TRUE

\* jobGroup.Wait returns: every sub-operation has returned.
Finished(w) == \A k \in DOMAIN w.items : w.items[k].pc \in {"done", "failed"}

ItemDone(w, k) == [ w EXCEPT !.items[k].pc = "done" ]
ItemFailed(w, k) == [ w EXCEPT !.items[k].pc = "failed", !.err = TRUE ]
ItemGoto(w, k, pc) == [ w EXCEPT !.items[k].pc = pc ]
\* The "Peer has been removed from service" log line of RemovePeerIfExists.
ItemRemoved(w, k) == [ w EXCEPT !.items[k].removed = TRUE ]

(* session_usage_validate: NewSessionUsageValidateWorker.                  *)

\* A limits check that lets a record sit exactly at its limit.
ExceedsLimitsStrict(item) ==
    \/ GetMaxBytes(item) # 0 /\ GetTotalBytes(item) > GetMaxBytes(item)
    \/ item.max_duration # 0 /\ item.duration > item.max_duration

\* A limits check that takes a ceiling of zero for a ceiling.
ExceedsLimitsUnset(item) ==
    \/ GetTotalBytes(item) >= GetMaxBytes(item)
    \/ item.duration >= item.max_duration

\* The limits check of one record.
ExceedsLimits(item) ==
    \/ GetMaxBytes(item) # 0 /\ GetTotalBytes(item) >= GetMaxBytes(item)
    \/ item.max_duration # 0 /\ item.duration >= item.max_duration

EnforcerStart ==
    /\ enforcer.pc = "idle"
    /\ \E dbOK \in BOOLEAN :
         IF ~dbOK THEN enforcer' = enforcer
         ELSE LET items == SessionFind(store, [ node_addr |-> NodeAddr,
                                                service_type |-> serviceType ])
              IN  enforcer' = [ IdleWorker EXCEPT !.pc = "run",
                                  !.items = [ s \in items |->
                                      [ pc |-> "new", removed |-> FALSE ] ] ]
    /\ UNCHANGED << now, serviceType, restarts, admissions, ledger, peers, store, req,
                    collector, publisher, reconciler, txm, tx, inflight, dirty, published, scheduler, rejected, core >>

\* The sub-operation up to and including the HasPeer call.
EnforcerCheck(item) ==
    /\ enforcer.pc = "run"
    /\ item \in DOMAIN enforcer.items
    /\ enforcer.items[item].pc = "new"
    /\ \E serviceOK \in BOOLEAN :
         IF enforcer.err \/ Cancelled \/ ~ExceedsLimits(item)
         THEN enforcer' = ItemDone(enforcer, item)
         ELSE LET next == RemovePeerIfExistsCheck(peers, item.peer_id, serviceOK)
              IN  enforcer' = IF next = "error" THEN ItemFailed(enforcer, item)
                              ELSE IF next = "return" THEN ItemDone(enforcer, item)
                              ELSE ItemGoto(enforcer, item, "remove_peer")
    /\ UNCHANGED << now, serviceType, restarts, admissions, ledger, peers, store, req,
                    collector, publisher, reconciler, txm, tx, inflight, dirty, published, scheduler, rejected, core >>

\* A worker that also deletes the record of the peer it removes.
EnforcerRemovePeerAndDelete(item) ==
    /\ enforcer.pc = "run"
    /\ item \in DOMAIN enforcer.items
    /\ enforcer.items[item].pc = "remove_peer"
    /\ \E serviceOK \in BOOLEAN :
         IF serviceOK
         THEN /\ peers' = RemovePeer(peers, item.peer_id)
              /\ store' = ApplyDelete(store, item)
              /\ enforcer' = ItemDone(ItemRemoved(enforcer, item), item)
         ELSE /\ peers' = peers
              /\ store' = store
              /\ enforcer' = ItemFailed(enforcer, item)
    /\ UNCHANGED << now, serviceType, restarts, admissions, ledger, req,
                    collector, publisher, reconciler, txm, tx, inflight, dirty, published, scheduler, rejected, core >>

\* The RemovePeer call of the sub-operation.
EnforcerRemovePeer(item) ==
    /\ enforcer.pc = "run"
    /\ item \in DOMAIN enforcer.items
    /\ enforcer.items[item].pc = "remove_peer"
    /\ \E serviceOK \in BOOLEAN :
         IF serviceOK
         THEN /\ peers' = RemovePeer(peers, item.peer_id)
              /\ enforcer' = ItemDone(ItemRemoved(enforcer, item), item)
         ELSE /\ peers' = peers
              /\ enforcer' = ItemFailed(enforcer, item)
    /\ UNCHANGED << now, serviceType, restarts, admissions, ledger, store, req,
                    collector, publisher, reconciler, txm, tx, inflight, dirty, published, scheduler, rejected, core >>

\* jobGroup.Wait and the return of the handler.
EnforcerWait ==
    /\ enforcer.pc = "run"
    /\ Finished(enforcer)
    /\ enforcer' = IdleWorker
    /\ UNCHANGED << now, serviceType, restarts, admissions, ledger, peers, store, req,
                    collector, publisher, reconciler, txm, tx, inflight, dirty, published, scheduler, rejected, core >>

Enforcer ==
    \/ EnforcerStart
    \/ \E item \in DOMAIN enforcer.items : EnforcerCheck(item) \/ EnforcerRemovePeer(item)
    \/ EnforcerWait

(* session_validate: NewSessionValidateWorker.                             *)

\* A worker that never marks the peer for removal.
ValidateRemovePeerNever(item, session) == FALSE

\* A worker that also deletes the record of a session the ledger still has
\* but no longer reports as active.
ValidateDeleteSessionEnded(item, session) ==
    \/ session = Nil
    \/ session # Nil /\ session.status # StatusActive

\* A worker without the service-type check.
ValidateRemovePeerAnyType(item, session) ==
    \/ session = Nil
    \/ session # Nil /\ session.status # StatusActive

\* What the sub-operation decides from the ledger's answer.
ValidateRemovePeer(item, session) ==
    IF item.service_type # serviceType THEN FALSE
    ELSE \/ session = Nil
         \/ session # Nil /\ session.status # StatusActive

ValidateDeleteSession(item, session) == session = Nil

\* The field "gone" of an item remembers whether the ledger had already
\* dropped the session when the tick loaded the record.
ReconcilerStart ==
    /\ reconciler.pc = "idle"
    /\ \E dbOK \in BOOLEAN :
         IF ~dbOK THEN reconciler' = reconciler
         ELSE LET items == SessionFind(store, [ node_addr |-> NodeAddr ])
              IN  reconciler' = [ IdleWorker EXCEPT !.pc = "run",
                                    !.items = [ s \in items |->
                                        [ pc |-> "new", remove |-> FALSE, delete |-> FALSE,
                                          removed |-> FALSE, session |-> Nil,
                                          gone |-> (LedgerSession(ledger, s.id) = Nil) ] ] ]
    /\ UNCHANGED << now, serviceType, restarts, admissions, ledger, peers, store, req,
                    collector, publisher, enforcer, txm, tx, inflight, dirty, published, scheduler, rejected, core >>

\* Where the sub-operation continues once the peer has been dealt with.
AfterPeer(w, item) ==
    IF w.items[item].delete THEN ItemGoto(w, item, "delete") ELSE ItemDone(w, item)

\* The ledger query and the decisions taken from its answer.
ReconcilerQuery(item) ==
    /\ reconciler.pc = "run"
    /\ item \in DOMAIN reconciler.items
    /\ reconciler.items[item].pc = "new"
    /\ \E ledgerOK \in BOOLEAN :
         IF reconciler.err \/ Cancelled THEN reconciler' = ItemDone(reconciler, item)
         ELSE IF ~ledgerOK THEN reconciler' = ItemFailed(reconciler, item)
         ELSE LET session == LedgerSession(ledger, item.id)
                  decided == [ reconciler EXCEPT
                                 !.items[item].remove = ValidateRemovePeer(item, session),
                                 !.items[item].delete = ValidateDeleteSession(item, session) ]
              IN  reconciler' = IF decided.items[item].remove
                                THEN ItemGoto(decided, item, "has_peer")
                                ELSE AfterPeer(decided, item)
    /\ UNCHANGED << now, serviceType, restarts, admissions, ledger, peers, store, req,
                    collector, publisher, enforcer, txm, tx, inflight, dirty, published, scheduler, rejected, core >>

\* The HasPeer call of RemovePeerIfExists.
ReconcilerHasPeer(item) ==
    /\ reconciler.pc = "run"
    /\ item \in DOMAIN reconciler.items
    /\ reconciler.items[item].pc = "has_peer"
    /\ \E serviceOK \in BOOLEAN :
         LET next == RemovePeerIfExistsCheck(peers, item.peer_id, serviceOK)
         IN  reconciler' = IF next = "error" THEN ItemFailed(reconciler, item)
                           ELSE IF next = "return" THEN AfterPeer(reconciler, item)
                           ELSE ItemGoto(reconciler, item, "remove_peer")
    /\ UNCHANGED << now, serviceType, restarts, admissions, ledger, peers, store, req,
                    collector, publisher, enforcer, txm, tx, inflight, dirty, published, scheduler, rejected, core >>

\* The RemovePeer call of RemovePeerIfExists.
ReconcilerRemovePeer(item) ==
    /\ reconciler.pc = "run"
    /\ item \in DOMAIN reconciler.items
    /\ reconciler.items[item].pc = "remove_peer"
    /\ \E serviceOK \in BOOLEAN :
         IF serviceOK
         THEN /\ peers' = RemovePeer(peers, item.peer_id)
              /\ reconciler' = AfterPeer(ItemRemoved(reconciler, item), item)
         ELSE /\ peers' = peers
              /\ reconciler' = ItemFailed(reconciler, item)
    /\ UNCHANGED << now, serviceType, restarts, admissions, ledger, store, req,
                    collector, publisher, enforcer, txm, tx, inflight, dirty, published, scheduler, rejected, core >>

\* SessionFindOneAndDelete for the record's id, first statement: the
\* SessionFindOne.  A query that matches no record is an error.
ReconcilerFind(item) ==
    /\ reconciler.pc = "run"
    /\ item \in DOMAIN reconciler.items
    /\ reconciler.items[item].pc = "delete"
    /\ \E dbOK \in BOOLEAN :
         LET session == SessionFindOne(store, [ id |-> item.id ])
         IN  IF ~dbOK \/ session = Nil
             THEN reconciler' = ItemFailed(reconciler, item)
             ELSE reconciler' = [ reconciler EXCEPT !.items[item].pc = "delete_row",
                                                    !.items[item].session = session ]
    /\ UNCHANGED << now, serviceType, restarts, admissions, ledger, peers, store, req,
                    collector, publisher, enforcer, txm, tx, inflight, dirty, published, scheduler, rejected, core >>

\* SessionFindOneAndDelete, second statement: db.Model(session).Delete(nil)
\* of the record that was read; other callers of the Store run between the
\* two statements.
ReconcilerDelete(item) ==
    /\ reconciler.pc = "run"
    /\ item \in DOMAIN reconciler.items
    /\ reconciler.items[item].pc = "delete_row"
    /\ \E dbOK \in BOOLEAN :
         IF ~dbOK
         THEN /\ store' = store
              /\ reconciler' = ItemFailed(reconciler, item)
         ELSE /\ store' = ApplyDelete(store, reconciler.items[item].session)
              /\ reconciler' = [ reconciler EXCEPT !.items[item].pc = "done",
                                                   !.items[item].session = Nil ]
    /\ UNCHANGED << now, serviceType, restarts, admissions, ledger, peers, req,
                    collector, publisher, enforcer, txm, tx, inflight, dirty, published, scheduler, rejected, core >>

ReconcilerWait ==
    /\ reconciler.pc = "run"
    /\ Finished(reconciler)
    /\ reconciler' = IdleWorker
    /\ UNCHANGED << now, serviceType, restarts, admissions, ledger, peers, store, req,
                    collector, publisher, enforcer, txm, tx, inflight, dirty, published, scheduler, rejected, core >>

Reconciler ==
    \/ ReconcilerStart
    \/ \E item \in DOMAIN reconciler.items :
         \/ ReconcilerQuery(item)
         \/ ReconcilerHasPeer(item)
         \/ ReconcilerRemovePeer(item)
         \/ ReconcilerFind(item)
         \/ ReconcilerDelete(item)
    \/ ReconcilerWait

(* session_usage_sync_with_database: NewSessionUsageSyncWithDatabaseWorker. *)

\* The worker's interval, in clock ticks.
CollectInterval == 1

\* Ids of the records whose counters differ between two Store states.
CounterChanges(before, after) ==
    { r.id : r \in { x \in before :
                       \E y \in after : /\ y.id = x.id
                                        /\ \/ y.rx_bytes # x.rx_bytes
                                           \/ y.tx_bytes # x.tx_bytes } }

\* A worker that takes every statistic for fresh.
StaleNever(stats, t) == FALSE

\* time.Since(item.UpdatedAt) > interval
Stale(stats, t) == t - stats.updated_at > CollectInterval

CollectorStart ==
    /\ collector.pc = "idle"
    /\ \E serviceOK \in BOOLEAN :
         IF ~serviceOK THEN collector' = collector
         ELSE collector' = [ IdleWorker EXCEPT !.pc = "run",
                               !.items = [ p \in DOMAIN peers |->
                                   [ pc |-> "new", stats |-> peers[p], session |-> Nil,
                                     missing |-> FALSE ] ] ]
    /\ UNCHANGED << now, serviceType, restarts, admissions, ledger, peers, store, req,
                    publisher, enforcer, reconciler, txm, tx, inflight, dirty, published, scheduler, rejected, core >>

\* Staleness check, then the read half of SessionFindOneAndUpdate.  The
\* field "missing" of an item remembers that SessionFindOne found no record.
CollectorFind(peerID) ==
    /\ collector.pc = "run"
    /\ peerID \in DOMAIN collector.items
    /\ collector.items[peerID].pc = "new"
    /\ \E dbOK \in BOOLEAN :
         IF collector.err \/ Cancelled THEN collector' = ItemDone(collector, peerID)
         ELSE IF Stale(collector.items[peerID].stats, now)
         THEN collector' = ItemDone(collector, peerID)
         ELSE LET stats == collector.items[peerID].stats
                  updates == [ rx_bytes |-> IntString(stats.rx),
                               tx_bytes |-> IntString(stats.tx),
                               set_duration |-> FALSE, duration |-> 0 ]
                  res == SessionFindOneAndUpdate(store, [ peer_id |-> peerID ],
                                                 updates, now)
              IN  IF ~dbOK
                  THEN collector' = ItemFailed(collector, peerID)
                  ELSE IF res.err
                  THEN collector' = [ ItemFailed(collector, peerID) EXCEPT
                                        !.items[peerID].missing = TRUE ]
                  ELSE collector' = [ collector EXCEPT !.items[peerID].pc = "update",
                                                       !.items[peerID].session = res.session ]
    /\ UNCHANGED << now, serviceType, restarts, admissions, ledger, peers, store, req,
                    publisher, enforcer, reconciler, txm, tx, inflight, dirty, published, scheduler, rejected, core >>

\* The write half of SessionFindOneAndUpdate.
CollectorUpdate(peerID) ==
    /\ collector.pc = "run"
    /\ peerID \in DOMAIN collector.items
    /\ collector.items[peerID].pc = "update"
    /\ \E dbOK \in BOOLEAN :
         LET item == collector.items[peerID]
             updates == [ rx_bytes |-> IntString(item.stats.rx),
                          tx_bytes |-> IntString(item.stats.tx),
                          set_duration |-> FALSE, duration |-> 0 ]
         IN  IF ~dbOK
             THEN /\ store' = store
                  /\ collector' = ItemFailed(collector, peerID)
             ELSE /\ store' = ApplyUpdates(store, item.session, updates, now)
                  /\ collector' = [ collector EXCEPT !.items[peerID].pc = "done",
                                                     !.items[peerID].session = Nil ]
    /\ dirty' = dirty \cup CounterChanges(store, store')
    /\ UNCHANGED << now, serviceType, restarts, admissions, ledger, peers, req,
                    publisher, enforcer, reconciler, txm, tx, inflight, published, scheduler, rejected, core >>

CollectorWait ==
    /\ collector.pc = "run"
    /\ Finished(collector)
    /\ collector' = IdleWorker
    /\ UNCHANGED << now, serviceType, restarts, admissions, ledger, peers, store, req,
                    publisher, enforcer, reconciler, txm, tx, inflight, dirty, published, scheduler, rejected, core >>

Collector ==
    \/ CollectorStart
    \/ \E peerID \in DOMAIN collector.items : CollectorFind(peerID) \/ CollectorUpdate(peerID)
    \/ CollectorWait

(* Context.BroadcastTx: one transaction at a time.                         *)

\* A BroadcastTx that does not wait for the mutex.
TxLockNoWait(caller) == txm' = caller

\* c.txm.Lock()
TxLock(caller) ==
    /\ txm = NoHolder
    /\ txm' = caller

\* c.txm.Unlock(), deferred to the return of BroadcastTx.
TxUnlock(caller) == txm' = IF txm = caller THEN NoHolder ELSE txm

\* The other ledger writers of the process: the node status worker and the
\* node prices worker.
Writers == {"status", "prices"}
IdleTx == [ c \in Writers |-> "idle" ]

\* A tick of a node worker: BroadcastTx with its one message takes the mutex
\* and submits the transaction.
WriterSubmit(c) ==
    /\ tx[c] = "idle"
    /\ TxLock(c)
    /\ tx' = [ tx EXCEPT ![c] = "submitted" ]
    /\ inflight' = inflight \cup {c}
    /\ UNCHANGED << now, serviceType, restarts, admissions, ledger, peers, store, req,
                    collector, publisher, enforcer, reconciler, dirty, published, scheduler, rejected, core >>

\* BroadcastTxCommit returns to the node worker, with or without an error.
WriterConfirm(c) ==
    /\ tx[c] = "submitted"
    /\ TxUnlock(c)
    /\ tx' = [ tx EXCEPT ![c] = "idle" ]
    /\ inflight' = inflight \ {c}
    /\ UNCHANGED << now, serviceType, restarts, admissions, ledger, peers, store, req,
                    collector, publisher, enforcer, reconciler, dirty, published, scheduler, rejected, core >>

Writer == \E c \in Writers : WriterSubmit(c) \/ WriterConfirm(c)

\* What a confirmed transaction leaves on the ledger.
ApplyMsgs(lg, msgs) ==
    [ id \in DOMAIN lg |->
        IF \E i \in DOMAIN msgs : msgs[i].id = id
        THEN LET i == CHOOSE j \in DOMAIN msgs :
                        msgs[j].id = id /\ \A k \in DOMAIN msgs : msgs[k].id = id => k <= j
             IN  [ lg[id] EXCEPT !.upload = msgs[i].upload_bytes,
                                 !.download = msgs[i].download_bytes ]
        ELSE lg[id] ]

\* The ledger accepts an update only for sessions it knows.
Acceptable(lg, msgs) == \A i \in DOMAIN msgs : lg[msgs[i].id] # Nil

(* session_usage_sync_with_blockchain:                                     *)
(* NewSessionUsageSyncWithBlockchainWorker.                                *)

\* Session.MsgUpdateSessionRequest.
MsgUpdateSessionRequest(item) ==
    [ id |-> item.id, download_bytes |-> GetTxBytes(item),
      upload_bytes |-> GetRxBytes(item), duration |-> item.duration ]

\* A worker without the up-to-date check: every record is reported.
UpToDateNever(session, item) == FALSE

\* Is the ledger's usage of the session already that of the record?
UpToDate(session, item) == session.upload = GetRxBytes(item)

\* An append that does not see what the other sub-operations appended.
AppendMsgUnlocked(msgs, msg) == << msg >>

\* mu.Lock(); msgs = append(msgs, msg); mu.Unlock()
AppendMsg(msgs, msg) == Append(msgs, msg)

\* The field "selected" of an item remembers that the sub-operation built a
\* message for the record.
PublisherStart ==
    /\ publisher.pc = "idle"
    /\ \E dbOK \in BOOLEAN :
         IF ~dbOK
         THEN /\ publisher' = publisher
              /\ UNCHANGED << dirty, published >>
         ELSE LET items == SessionFind(store, [ node_addr |-> NodeAddr ])
              IN  /\ publisher' = [ IdleWorker EXCEPT !.pc = "run",
                                      !.clean = (published /\ dirty = {}),
                                      !.items = [ s \in items |->
                                          [ pc |-> "new", selected |-> FALSE ] ] ]
                  /\ dirty' = {}
                  /\ published' = FALSE
    /\ UNCHANGED << now, serviceType, restarts, admissions, ledger, peers, store, req,
                    collector, enforcer, reconciler, txm, tx, inflight, scheduler, rejected, core >>

\* jobGroup.SetLimit(8): the number of sub-operations running at a time.
JobLimit == 8

\* The records whose sub-operation is waiting for the ledger's answer.
InFlight(w) == { k \in DOMAIN w.items : w.items[k].pc = "query" }

\* A group without a limit.
PublisherGoUnlimited(item) ==
    /\ publisher.pc = "run"
    /\ item \in DOMAIN publisher.items
    /\ publisher.items[item].pc = "new"
    /\ publisher' = IF publisher.err \/ Cancelled
                    THEN ItemDone(publisher, item)
                    ELSE ItemGoto(publisher, item, "query")
    /\ UNCHANGED << now, serviceType, restarts, admissions, ledger, peers, store, req,
                    collector, enforcer, reconciler, txm, tx, inflight, dirty, published, scheduler, rejected, core >>

\* First half of the sub-operation of one record: jobGroup.Go waits for one
\* of the JobLimit places, the sub-operation starts, looks at jobCtx and
\* sends the ledger query.
PublisherGo(item) ==
    /\ publisher.pc = "run"
    /\ item \in DOMAIN publisher.items
    /\ publisher.items[item].pc = "new"
    /\ Cardinality(InFlight(publisher)) < JobLimit
    /\ publisher' = IF publisher.err \/ Cancelled
                    THEN ItemDone(publisher, item)
                    ELSE ItemGoto(publisher, item, "query")
    /\ UNCHANGED << now, serviceType, restarts, admissions, ledger, peers, store, req,
                    collector, enforcer, reconciler, txm, tx, inflight, dirty, published, scheduler, rejected, core >>

\* Second half: the ledger answers, the message is built and appended under
\* mu, and the sub-operation returns, which frees its place.  jobCtx is not
\* looked at again.
PublisherAnswer(item) ==
    /\ publisher.pc = "run"
    /\ item \in DOMAIN publisher.items
    /\ publisher.items[item].pc = "query"
    /\ \E ledgerOK \in BOOLEAN :
         IF ~ledgerOK THEN publisher' = ItemFailed(publisher, item)
         ELSE LET session == LedgerSession(ledger, item.id)
              IN  IF session = Nil THEN publisher' = ItemDone(publisher, item)
                  ELSE IF UpToDate(session, item) THEN publisher' = ItemDone(publisher, item)
                  ELSE publisher' = [ ItemDone(publisher, item) EXCEPT
                                        !.items[item].selected = TRUE,
                                        !.msgs = AppendMsg(@, MsgUpdateSessionRequest(item)) ]
    /\ UNCHANGED << now, serviceType, restarts, admissions, ledger, peers, store, req,
                    collector, enforcer, reconciler, txm, tx, inflight, dirty, published, scheduler, rejected, core >>

\* The sub-operations of a tick step by step.
PublisherFanOut ==
    \E item \in DOMAIN publisher.items : PublisherGo(item) \/ PublisherAnswer(item)

\* jobGroup.Wait: an error ends the tick, otherwise BroadcastTx is called.
PublisherWait ==
    /\ publisher.pc = "run"
    /\ Finished(publisher)
    /\ publisher' = IF publisher.err THEN IdleWorker
                    ELSE [ publisher EXCEPT !.pc = "broadcast", !.items = << >> ]
    /\ UNCHANGED << now, serviceType, restarts, admissions, ledger, peers, store, req,
                    collector, enforcer, reconciler, txm, tx, inflight, dirty, published, scheduler, rejected, core >>

\* BroadcastTx takes the mutex; with no message it returns at once.
PublisherLock ==
    /\ publisher.pc = "broadcast"
    /\ TxLock("publisher")
    /\ publisher' = [ publisher EXCEPT !.pc = "locked" ]
    /\ UNCHANGED << now, serviceType, restarts, admissions, ledger, peers, store, req,
                    collector, enforcer, reconciler, tx, inflight, dirty, published, scheduler, rejected, core >>

\* A BroadcastTx without the check for an empty message list.
PublisherSubmitAlways ==
    /\ publisher.pc = "locked"
    /\ txm' = txm
    /\ publisher' = [ publisher EXCEPT !.pc = "submitted" ]
    /\ published' = published
    /\ rejected' = rejected
    /\ inflight' = inflight \cup {"publisher"}
    /\ UNCHANGED << now, serviceType, restarts, admissions, ledger, peers, store, req,
                    collector, enforcer, reconciler, tx, dirty, scheduler, core >>

PublisherSubmit ==
    /\ publisher.pc = "locked"
    /\ IF Len(publisher.msgs) = 0
       THEN /\ TxUnlock("publisher")
            /\ publisher' = IdleWorker
            /\ published' = TRUE
            /\ rejected' = FALSE
            /\ inflight' = inflight
       ELSE /\ txm' = txm
            /\ publisher' = [ publisher EXCEPT !.pc = "submitted" ]
            /\ published' = published
            /\ rejected' = rejected
            /\ inflight' = inflight \cup {"publisher"}
    /\ UNCHANGED << now, serviceType, restarts, admissions, ledger, peers, store, req,
                    collector, enforcer, reconciler, tx, dirty, scheduler, core >>

\* A worker that submits one transaction per session: the transaction
\* carried the first message only and the worker goes back to BroadcastTx
\* with the others.
PublisherConfirmEach ==
    /\ publisher.pc = "submitted"
    /\ \E ledgerOK \in BOOLEAN :
         IF ledgerOK /\ Acceptable(ledger, << Head(publisher.msgs) >>)
         THEN /\ ledger' = ApplyMsgs(ledger, << Head(publisher.msgs) >>)
              /\ published' = TRUE
              /\ rejected' = FALSE
         ELSE /\ ledger' = ledger
              /\ published' = FALSE
              /\ rejected' = TRUE
    /\ TxUnlock("publisher")
    /\ inflight' = inflight \ {"publisher"}
    /\ publisher' = IF Len(publisher.msgs) > 1
                    THEN [ publisher EXCEPT !.pc = "broadcast", !.msgs = Tail(@) ]
                    ELSE IdleWorker
    /\ UNCHANGED << now, serviceType, restarts, admissions, peers, store, req,
                    collector, enforcer, reconciler, tx, dirty, scheduler, core >>

\* BroadcastTxCommit returns: the transaction is in a block, or it failed.
PublisherConfirm ==
    /\ publisher.pc = "submitted"
    /\ \E ledgerOK \in BOOLEAN :
         IF ledgerOK /\ Acceptable(ledger, publisher.msgs)
         THEN /\ ledger' = ApplyMsgs(ledger, publisher.msgs)
              /\ published' = TRUE
              /\ rejected' = FALSE
         ELSE /\ ledger' = ledger
              /\ published' = FALSE
              /\ rejected' = TRUE
    /\ TxUnlock("publisher")
    /\ inflight' = inflight \ {"publisher"}
    /\ publisher' = IdleWorker
    /\ UNCHANGED << now, serviceType, restarts, admissions, peers, store, req,
                    collector, enforcer, reconciler, tx, dirty, scheduler, core >>

Publisher ==
    \/ PublisherStart
    \/ PublisherFanOut
    \/ PublisherWait
    \/ PublisherLock
    \/ PublisherSubmit
    \/ PublisherConfirm

----------------------------------------------------------------------------
(* The task scheduler (cron.Scheduler of the SDK).  Each registered job    *)
(* has a loop of its own: when the delay it waits for elapses it starts an *)
(* invocation of the handler unless one is still running, an error sends   *)
(* the loop to the job's retry delay, Stop signals cancellation to every   *)
(* loop.  A handler is seen here only by the error it returns.             *)

JobNames == { "session_usage_sync_with_blockchain",
              "session_usage_sync_with_database",
              "session_usage_validate",
              "session_validate" }

NewJob == [ running |-> 0,        \* invocations of the handler in progress
            wait |-> "interval",  \* the delay the loop waits for next
            after |-> "none",     \* the delay that preceded the last start
            last |-> "none",      \* how the last invocation returned
            skipped |-> FALSE,    \* the last elapsed delay found one running
            exited |-> FALSE ]    \* the loop has exited

NewScheduler == [ state |-> "started", waited |-> FALSE,
                  jobs |-> [ j \in JobNames |-> NewJob ] ]

\* A loop with no re-entrancy barrier.
JobTickOverlap(j) ==
    /\ scheduler.state = "started"
    /\ ~scheduler.jobs[j].exited
    /\ scheduler.jobs[j].running < 2
    /\ scheduler' = [ scheduler EXCEPT
                        !.jobs[j].running = @ + 1,
                        !.jobs[j].after = scheduler.jobs[j].wait,
                        !.jobs[j].wait = "interval",
                        !.jobs[j].skipped = FALSE ]
    /\ UNCHANGED << now, serviceType, restarts, admissions, ledger, peers, store, req,
                    collector, publisher, enforcer, reconciler, txm, tx, inflight,
                    dirty, published, rejected, core >>

\* The delay of job j elapses.
JobTick(j) ==
    /\ scheduler.state = "started"
    /\ ~scheduler.jobs[j].exited
    /\ scheduler' = IF scheduler.jobs[j].running > 0
                    THEN [ scheduler EXCEPT !.jobs[j].skipped = TRUE ]
                    ELSE [ scheduler EXCEPT
                             !.jobs[j].running = 1,
                             !.jobs[j].after = scheduler.jobs[j].wait,
                             !.jobs[j].wait = "interval",
                             !.jobs[j].skipped = FALSE ]
    /\ UNCHANGED << now, serviceType, restarts, admissions, ledger, peers, store, req,
                    collector, publisher, enforcer, reconciler, txm, tx, inflight,
                    dirty, published, rejected, core >>

\* A scheduler that an error of one handler brings down.
JobReturnFatal(j, err) ==
    /\ scheduler.jobs[j].running > 0
    /\ scheduler' = [ scheduler EXCEPT
                        !.jobs[j].running = @ - 1,
                        !.jobs[j].last = IF err THEN "error" ELSE "ok",
                        !.state = IF err THEN "stopped" ELSE @ ]
    /\ UNCHANGED << now, serviceType, restarts, admissions, ledger, peers, store, req,
                    collector, publisher, enforcer, reconciler, txm, tx, inflight,
                    dirty, published, rejected, core >>

\* The invocation of job j returns.
JobReturn(j, err) ==
    /\ scheduler.jobs[j].running > 0
    /\ scheduler' = [ scheduler EXCEPT
                        !.jobs[j].running = @ - 1,
                        !.jobs[j].last = IF err THEN "error" ELSE "ok",
                        !.jobs[j].wait = IF err THEN "retry" ELSE "interval" ]
    /\ UNCHANGED << now, serviceType, restarts, admissions, ledger, peers, store, req,
                    collector, publisher, enforcer, reconciler, txm, tx, inflight,
                    dirty, published, rejected, core >>

\* Scheduler.Stop is called: cancellation is signalled to every job.
SchedulerStop ==
    /\ scheduler.state = "started"
    /\ scheduler' = [ scheduler EXCEPT !.state = "stopping" ]
    /\ UNCHANGED << now, serviceType, restarts, admissions, ledger, peers, store, req,
                    collector, publisher, enforcer, reconciler, txm, tx, inflight,
                    dirty, published, rejected, core >>

\* The loop of job j sees the cancellation once no invocation is running.
JobExit(j) ==
    /\ scheduler.state # "started"
    /\ scheduler.jobs[j].running = 0
    /\ ~scheduler.jobs[j].exited
    /\ scheduler' = [ scheduler EXCEPT !.jobs[j].exited = TRUE ]
    /\ UNCHANGED << now, serviceType, restarts, admissions, ledger, peers, store, req,
                    collector, publisher, enforcer, reconciler, txm, tx, inflight,
                    dirty, published, rejected, core >>

\* A Stop that does not wait for the invocations in progress.
SchedulerStopReturnEarly ==
    /\ scheduler.state = "stopping"
    /\ scheduler' = [ scheduler EXCEPT !.state = "stopped" ]
    /\ UNCHANGED << now, serviceType, restarts, admissions, ledger, peers, store, req,
                    collector, publisher, enforcer, reconciler, txm, tx, inflight,
                    dirty, published, rejected, core >>

\* Scheduler.Stop returns.
SchedulerStopReturn ==
    /\ scheduler.state = "stopping"
    /\ \A j \in JobNames : scheduler.jobs[j].running = 0
    /\ scheduler' = [ scheduler EXCEPT !.state = "stopped" ]
    /\ UNCHANGED << now, serviceType, restarts, admissions, ledger, peers, store, req,
                    collector, publisher, enforcer, reconciler, txm, tx, inflight,
                    dirty, published, rejected, core >>

\* Scheduler.Wait returns.
SchedulerWaitReturn ==
    /\ ~scheduler.waited
    /\ \A j \in JobNames : scheduler.jobs[j].exited
    /\ scheduler' = [ scheduler EXCEPT !.waited = TRUE ]
    /\ UNCHANGED << now, serviceType, restarts, admissions, ledger, peers, store, req,
                    collector, publisher, enforcer, reconciler, txm, tx, inflight,
                    dirty, published, rejected, core >>

Scheduler ==
    \/ \E j \in JobNames : JobTick(j)
    \/ \E j \in JobNames, err \in BOOLEAN : JobReturn(j, err)
    \/ SchedulerStop
    \/ \E j \in JobNames : JobExit(j)
    \/ SchedulerStopReturn
    \/ SchedulerWaitReturn

----------------------------------------------------------------------------
(* The core Context.  Its fields are guarded by the sync.RWMutex fm: the   *)
(* getters take the read lock, the setters the write lock.  Client calls   *)
(* RPCAddr and RPCAddr calls RPCAddrs while still holding the read lock,   *)
(* each taking it again.  A Lock that is waiting for the readers to leave  *)
(* makes every new RLock wait until that Lock has been released.           *)

CoreReaders == { "g1", "g2" }
CoreWriters == { "w1" }
CoreGetters == { "Client", "RPCAddr" }
CoreSetters == { "SetRPCAddrs", "SetLocation", "SetSpeedtestResults" }
CoreValues == { "v1", "v2" }

IdleCall == [ pc |-> "idle", entry |-> "", arg |-> "", got |-> "" ]

\* fm.readers: read locks held; fm.w: the setter that has called Lock and
\* not yet Unlock, NoHolder when there is none.
NewCore == [ fm       |-> [ readers |-> 0, w |-> NoHolder ],
             rpcAddrs |-> "v1", location |-> "v1", speedtest |-> "v1",
             calls    |-> [ t \in CoreReaders \cup CoreWriters |-> IdleCall ] ]

\* A goroutine calls c.Client() or c.RPCAddr().
CoreGet(t, getter) ==
    /\ core.calls[t].pc = "idle"
    /\ core' = [ core EXCEPT !.calls[t] = [ IdleCall EXCEPT !.pc = getter,
                                                            !.entry = getter ] ]
    /\ UNCHANGED << now, serviceType, restarts, admissions, ledger, peers, store, req,
                    collector, publisher, enforcer, reconciler, txm, tx, inflight,
                    dirty, published, scheduler, rejected >>

\* May a new RLock pass?
CanRLock == core.fm.w = NoHolder

\* c.fm.RLock() at the head of Client, RPCAddr or RPCAddrs; the getter then
\* calls the next one.
CoreRLock(t) ==
    /\ core.calls[t].pc \in { "Client", "RPCAddr", "RPCAddrs" }
    /\ CanRLock
    /\ LET pc == core.calls[t].pc
       IN  core' = [ core EXCEPT
                       !.fm.readers = @ + 1,
                       !.calls[t].pc = IF pc = "Client" THEN "RPCAddr"
                                       ELSE IF pc = "RPCAddr" THEN "RPCAddrs"
                                       ELSE "RPCAddrs_return",
                       !.calls[t].got = IF pc = "RPCAddrs" THEN core.rpcAddrs ELSE @ ]
    /\ UNCHANGED << now, serviceType, restarts, admissions, ledger, peers, store, req,
                    collector, publisher, enforcer, reconciler, txm, tx, inflight,
                    dirty, published, scheduler, rejected >>

\* The deferred c.fm.RUnlock() of RPCAddrs, RPCAddr or Client.
CoreRUnlock(t) ==
    /\ core.calls[t].pc \in { "RPCAddrs_return", "RPCAddr_return", "Client_return" }
    /\ LET pc == core.calls[t].pc
           last == \/ pc = "Client_return"
                   \/ pc = "RPCAddr_return" /\ core.calls[t].entry = "RPCAddr"
       IN  core' = [ core EXCEPT
                       !.fm.readers = @ - 1,
                       !.calls[t] = IF last THEN IdleCall
                                    ELSE [ @ EXCEPT !.pc = IF pc = "RPCAddrs_return"
                                                           THEN "RPCAddr_return"
                                                           ELSE "Client_return" ] ]
    /\ UNCHANGED << now, serviceType, restarts, admissions, ledger, peers, store, req,
                    collector, publisher, enforcer, reconciler, txm, tx, inflight,
                    dirty, published, scheduler, rejected >>

\* A worker calls SetRPCAddrs, SetLocation or SetSpeedtestResults.
CoreSet(t, setter, value) ==
    /\ core.calls[t].pc = "idle"
    /\ core' = [ core EXCEPT !.calls[t] = [ IdleCall EXCEPT !.pc = "Lock",
                                                            !.entry = setter,
                                                            !.arg = value ] ]
    /\ UNCHANGED << now, serviceType, restarts, admissions, ledger, peers, store, req,
                    collector, publisher, enforcer, reconciler, txm, tx, inflight,
                    dirty, published, scheduler, rejected >>

\* c.fm.Lock(), first half: the setter is the next writer; from now on a
\* new RLock waits.
CoreLock(t) ==
    /\ core.calls[t].pc = "Lock"
    /\ core.fm.w = NoHolder
    /\ core' = [ core EXCEPT !.fm.w = t, !.calls[t].pc = "Lock_wait" ]
    /\ UNCHANGED << now, serviceType, restarts, admissions, ledger, peers, store, req,
                    collector, publisher, enforcer, reconciler, txm, tx, inflight,
                    dirty, published, scheduler, rejected >>

\* c.fm.Lock(), second half: the readers have left.
CoreLocked(t) ==
    /\ core.calls[t].pc = "Lock_wait"
    /\ core.fm.readers = 0
    /\ core' = [ core EXCEPT !.calls[t].pc = "locked" ]
    /\ UNCHANGED << now, serviceType, restarts, admissions, ledger, peers, store, req,
                    collector, publisher, enforcer, reconciler, txm, tx, inflight,
                    dirty, published, scheduler, rejected >>

\* The assignment and the deferred c.fm.Unlock().
CoreUnlock(t) ==
    /\ core.calls[t].pc = "locked"
    /\ LET call == core.calls[t]
       IN  core' = [ core EXCEPT
                       !.fm.w = NoHolder,
                       !.rpcAddrs = IF call.entry = "SetRPCAddrs" THEN call.arg ELSE @,
                       !.location = IF call.entry = "SetLocation" THEN call.arg ELSE @,
                       !.speedtest = IF call.entry = "SetSpeedtestResults"
                                     THEN call.arg ELSE @,
                       !.calls[t] = IdleCall ]
    /\ UNCHANGED << now, serviceType, restarts, admissions, ledger, peers, store, req,
                    collector, publisher, enforcer, reconciler, txm, tx, inflight,
                    dirty, published, scheduler, rejected >>

Core ==
    \/ \E t \in CoreReaders, getter \in CoreGetters : CoreGet(t, getter)
    \/ \E t \in CoreReaders : CoreRLock(t) \/ CoreRUnlock(t)
    \/ \E t \in CoreWriters, setter \in CoreSetters, value \in CoreValues :
         CoreSet(t, setter, value)
    \/ \E t \in CoreWriters : CoreLock(t) \/ CoreLocked(t) \/ CoreUnlock(t)

----------------------------------------------------------------------------
(* Restart of the process: the Store and the ledger survive, the service   *)
(* starts without peers, requests and ticks in progress are gone.  The     *)
(* operator may have configured another service type.                      *)

Restart ==
    /\ restarts < MaxRestarts
    /\ restarts' = restarts + 1
    /\ \E type \in ServiceTypes : serviceType' = type
    /\ peers' = NoPeers
    /\ req' = [ r \in Reqs |-> IdleReq ]
    /\ collector' = IdleWorker
    /\ publisher' = IdleWorker
    /\ enforcer' = IdleWorker
    /\ reconciler' = IdleWorker
    /\ txm' = NoHolder
    /\ tx' = IdleTx
    /\ inflight' = {}
    /\ published' = FALSE
    /\ scheduler' = NewScheduler
    /\ rejected' = FALSE
    /\ core' = NewCore
    /\ UNCHANGED << now, admissions, ledger, store, dirty >>

----------------------------------------------------------------------------
(* The node.                                                               *)

Init ==
    /\ now = 0
    /\ serviceType = "wireguard"
    /\ restarts = 0
    /\ admissions = 0
    /\ ledger = [ id \in LocalIds |->
                    [ status |-> StatusActive, upload |-> 0, download |-> 0 ] ]
    /\ peers = NoPeers
    /\ store = {}
    /\ req = [ r \in Reqs |-> IdleReq ]
    /\ collector = IdleWorker
    /\ publisher = IdleWorker
    /\ enforcer = IdleWorker
    /\ reconciler = IdleWorker
    /\ txm = NoHolder
    /\ tx = IdleTx
    /\ inflight = {}
    /\ dirty = {}
    /\ published = FALSE
    /\ scheduler = NewScheduler
    /\ rejected = FALSE
    /\ core = NewCore

Next ==
    \/ \E r \in Reqs : HandshakeBegin(r, SessionIds, Payloads, Accounts)
    \/ \E r \in Reqs : HandshakeSteps(r)
    \/ Tick
    \/ Traffic
    \/ LedgerChange
    \/ Collector
    \/ Publisher
    \/ Enforcer
    \/ Reconciler
    \/ Writer
    \/ Scheduler
    \/ Core
    \/ Restart

Spec == Init /\ [][Next]_vars

----------------------------------------------------------------------------
(* Admission under concurrency: two handler invocations for sessions of    *)
(* this node, the ledger ending sessions, the session_validate worker.     *)

NextAdmit ==
    \/ \E r \in Reqs : HandshakeBegin(r, LocalIds, {"d1", "d3"}, {"acc1"})
    \/ \E r \in Reqs : HandshakeSteps(r)
    \/ LedgerChange
    \/ Reconciler

SpecAdmit == Init /\ [][NextAdmit]_vars

----------------------------------------------------------------------------
(* Rejections: one handler invocation at a time, every kind of request.    *)

NextReject ==
    \/ HandshakeBegin("r1", SessionIds, Payloads, Accounts)
    \/ HandshakeSteps("r1")
    \/ LedgerChange

SpecReject == Init /\ [][NextReject]_vars

----------------------------------------------------------------------------
(* Reconciliation: admissions (two encodings of one key), the ledger       *)
(* ending sessions, restarts with another service type, the               *)
(* session_validate worker.                                                *)

NextReconcile ==
    \/ HandshakeBegin("r1", LocalIds, {"d1", "d2"}, {"acc1"})
    \/ HandshakeSteps("r1")
    \/ LedgerChange
    \/ Reconciler
    \/ Restart

SpecReconcile == Init /\ [][NextReconcile]_vars

----------------------------------------------------------------------------
(* Usage: admissions, traffic, the clock, the session_usage_sync_with_     *)
(* database worker and the session_usage_validate worker.                  *)

NextUsage ==
    \/ HandshakeBegin("r1", LocalIds, {"d1"}, {"acc1"})
    \/ HandshakeSteps("r1")
    \/ Tick
    \/ Traffic
    \/ Collector
    \/ Enforcer

SpecUsage == Init /\ [][NextUsage]_vars

----------------------------------------------------------------------------
(* Usage reports: admissions, traffic, the session_usage_sync_with_        *)
(* database worker and the session_usage_sync_with_blockchain worker.      *)

NextPublish ==
    \/ HandshakeBegin("r1", LocalIds, {"d1"}, {"acc1"})
    \/ HandshakeSteps("r1")
    \/ Traffic
    \/ Collector
    \/ Publisher

SpecPublish == Init /\ [][NextPublish]_vars

----------------------------------------------------------------------------
(* Ledger writes: the session_usage_sync_with_blockchain worker with a     *)
(* session to report, and the node workers that broadcast transactions.    *)

NextTx ==
    \/ HandshakeBegin("r1", {1}, {"d1"}, {"acc1"})
    \/ HandshakeSteps("r1")
    \/ Traffic
    \/ Collector
    \/ Publisher
    \/ Writer

SpecTx == Init /\ [][NextTx]_vars

----------------------------------------------------------------------------
(* Batches: two sessions with incoming traffic, the                        *)
(* session_usage_sync_with_database worker and the                        *)
(* session_usage_sync_with_blockchain worker.                              *)

\* Here every peer receives at most one byte and sends none.
NextBatch ==
    \/ HandshakeBegin("r1", LocalIds, {"d1", "d3"}, {"acc1"})
    \/ HandshakeSteps("r1")
    \/ Traffic /\ \A p \in DOMAIN peers' : peers'[p].tx = 0 /\ peers'[p].rx <= 1
    \/ Collector
    \/ Publisher

SpecBatch == Init /\ [][NextBatch]_vars

----------------------------------------------------------------------------
(* Store callers: admissions of one session, traffic, the ledger dropping  *)
(* the session, the session_usage_sync_with_database worker and the        *)
(* session_validate worker.                                                *)

NextStore ==
    \/ HandshakeBegin("r1", {1}, {"d1"}, {"acc1"})
    \/ HandshakeSteps("r1")
    \/ Traffic
    \/ LedgerChange
    \/ Collector
    \/ Reconciler

SpecStore == Init /\ [][NextStore]_vars

----------------------------------------------------------------------------
(* All readers and writers of the Store: admissions of one session,        *)
(* traffic, the ledger dropping the session, and the four session workers. *)

\* Here one request is made, the peer sends nothing and the ledger keeps
\* the other session as it is.
NextWriters ==
    \/ HandshakeBegin("r1", {1}, {"d1"}, {"acc1"}) /\ admissions = 0
    \/ HandshakeSteps("r1")
    \/ Traffic /\ \A p \in DOMAIN peers' : peers'[p].tx = 0
    \/ LedgerChange /\ ledger'[2] = ledger[2]
    \/ Collector
    \/ Publisher
    \/ Enforcer
    \/ Reconciler

SpecWriters == Init /\ [][NextWriters]_vars

----------------------------------------------------------------------------
(* Properties of admission.                                                *)

\* C1: after any sequence of admission requests and worker ticks, concurrent
\* admission requests included, the Session Store holds at most one record
\* per ledger session id and at most one record per peer id.
C1_UniqueRecords ==
    \A s, t \in store : (s.id = t.id \/ s.peer_id = t.peer_id) => s = t

\* Two invocations raced for one session id: both passed the checks, one has
\* inserted its record and answered 200, the other is about to insert.
C1_Witness ==
    \E r1, r2 \in Reqs :
        /\ r1 # r2
        /\ req[r1].pc = "done" /\ req[r1].code = 200
        /\ req[r2].pc = "insert"
        /\ \E s \in store : s.id = req[r2].id

\* C2: no partial admission.  If AddPeer fails, no record of the session
\* exists afterwards; if AddPeer succeeds and the insert fails, the handler
\* removes the peer it added before it answers, so that the service is not
\* left with a peer that has no record.
C2_NoPartialAdmission ==
    [][ \A r \in Reqs :
          /\ (req[r].pc = "add_peer" /\ req'[r].pc = "done") =>
                SessionFindOne(store', [ id |-> req[r].id ]) = Nil
          /\ (req[r].pc = "insert" /\ req'[r].pc = "done" /\ req'[r].code # 200) =>
                \/ ~HasPeer(peers', req[r].peer_id)
                \/ SessionFindOne(store', [ peer_id |-> req[r].peer_id ]) # Nil
      ]_vars

\* The steps of one handler invocation in their order, each taken only when
\* the check before it has passed.
C3_Order(r) ==
    LET a == req[r]
        b == req'[r]
        session == LedgerSession(ledger, a.id)
    IN  /\ (b.pc = "check_id" /\ b # a) =>
              a.pc \in {"idle", "done"} /\ PeersLen(peers) < MaxPeers
        /\ (b.pc = "check_peer" /\ b # a) =>
              a.pc = "check_id" /\ \A s \in store : s.id # a.id
        /\ (b.pc = "query" /\ b # a) =>
              a.pc = "check_peer" /\ \A s \in store : s.peer_request # Base64(a.data)
        /\ (b.pc = "add_peer" /\ b # a) =>
              /\ a.pc = "query"
              /\ session # Nil
              /\ session.status = StatusActive
              /\ session.node = NodeAddr
              /\ session.acc = a.acc
        /\ (b.pc = "insert" /\ b # a) =>
              a.pc = "add_peer" /\ HasPeer(peers', b.peer_id)

\* C3: a rejected admission request leaves the Session Store and the peer
\* set as they were; AddPeer is called only after every check has passed,
\* and the insert only after AddPeer has succeeded.
C3_RejectionsLeaveNoTrace ==
    [][ /\ \A r \in Reqs : C3_Order(r)
        /\ \A r \in Reqs :
              (req[r].pc \notin {"add_peer", "insert"} /\ req'[r] # req[r]) =>
                  store' = store /\ peers' = peers
        /\ admissions' # admissions => store' = store /\ peers' = peers
        /\ peers' # peers =>
              \E r \in Reqs : req[r].pc = "add_peer" /\ req'[r].pc = "insert"
        /\ store' # store =>
              \E r \in Reqs : req[r].pc = "insert" /\ req'[r].code = 200
      ]_vars

\* Two sessions are admitted and a third request is turned away at the peer
\* limit, the two records and the two peers still in place.
C3_Witness ==
    /\ req["r1"].pc = "done" /\ req["r1"].code = 409
    /\ PeersLen(peers) >= MaxPeers
    /\ Cardinality(store) = 2
    /\ \A s \in store : HasPeer(peers, s.peer_id)

----------------------------------------------------------------------------
(* Properties of the session_validate worker and of peer removal.          *)

\* The items of the running tick that the step keeps.
C4_Items ==
    IF reconciler.pc = "run" /\ reconciler'.pc = "run"
    THEN DOMAIN reconciler.items \cap DOMAIN reconciler'.items
    ELSE {}

\* The tick returns from jobGroup.Wait.
C4_TickEnds ==
    reconciler.pc = "run" /\ reconciler'.pc = "idle" /\ restarts' = restarts

\* C4: reconciliation convergence.  For a record of this node whose ledger
\* session no longer exists, the tick marks the record for deletion, makes
\* the deletion the next step only once the service no longer has the
\* record's peer, and the deletion leaves no record of the id; a tick that
\* ends without an error has done so for every record whose session was
\* gone when the tick loaded it.
C4_ReconciliationConvergence ==
    [][ /\ \A it \in C4_Items :
              LET a == reconciler.items[it]
                  b == reconciler'.items[it]
              IN  /\ ( /\ a.pc = "new"
                       /\ b.pc \notin {"new", "failed"}
                       /\ ~reconciler.err
                       /\ LedgerSession(ledger, it.id) = Nil )
                        => b.delete /\ b.pc \in {"has_peer", "delete"}
                  /\ (a.pc # "delete" /\ b.pc = "delete") =>
                        ~HasPeer(peers', it.peer_id)
                  /\ (a.pc = "delete_row" /\ b.pc = "done") =>
                        SessionFindOne(store', [ id |-> it.id ]) = Nil
        /\ (C4_TickEnds /\ ~reconciler.err) =>
              \A it \in DOMAIN reconciler.items :
                  reconciler.items[it].gone =>
                      /\ reconciler.items[it].pc = "done"
                      /\ reconciler.items[it].delete
                      /\ SessionFindOne(store', [ id |-> it.id ]) = Nil
      ]_vars

\* A tick has run to its end without an error: the session of a record was
\* gone, its live peer has been removed and the record has been deleted.
C4_Witness ==
    /\ reconciler.pc = "run"
    /\ Finished(reconciler)
    /\ ~reconciler.err
    /\ \E it \in DOMAIN reconciler.items :
          /\ reconciler.items[it].gone
          /\ reconciler.items[it].removed
          /\ reconciler.items[it].pc = "done"
          /\ ~HasPeer(peers, it.peer_id)
          /\ SessionFindOne(store, [ id |-> it.id ]) = Nil

\* C6: when the ledger reports a session that exists but is not active, the
\* tick removes the record's peer and leaves the record in place; a record
\* is deleted only when the ledger reports no session for its id.
C6_InactiveKeepsRecord ==
    [][ /\ \A it \in C4_Items :
              LET a == reconciler.items[it]
                  b == reconciler'.items[it]
                  session == LedgerSession(ledger, it.id)
              IN  /\ ( /\ a.pc = "new"
                       /\ b.pc \notin {"new", "failed"}
                       /\ ~reconciler.err
                       /\ session # Nil
                       /\ session.status # StatusActive )
                        => /\ ~b.delete
                           /\ b.pc \in {"has_peer", "done"}
                  /\ (b.delete /\ ~a.delete) => session = Nil
                  /\ (b.pc = "delete") => b.delete
                  /\ (a.pc # "done" /\ b.pc = "done" /\ ~b.delete /\ session # Nil
                        /\ session.status # StatusActive /\ ~reconciler.err) =>
                        /\ ~HasPeer(peers', it.peer_id)
                        /\ it \in store'
        /\ \A s \in store :
              (\A t \in store' : t.id # s.id) => LedgerSession(ledger, s.id) = Nil
      ]_vars

\* The ledger reports the session of a record as inactive: the tick has
\* removed the record's peer and the record is still in the Store.
C6_Witness ==
    /\ reconciler.pc = "run"
    /\ \E it \in DOMAIN reconciler.items :
          /\ reconciler.items[it].pc = "done"
          /\ reconciler.items[it].removed
          /\ ~reconciler.items[it].delete
          /\ ledger[it.id] # Nil
          /\ ledger[it.id].status = StatusInactive
          /\ ~HasPeer(peers, it.peer_id)
          /\ it \in store

\* Peer ids RemovePeerIfExists is called with: those of the live peers and
\* those of the records.
C10_PeerIds == DOMAIN peers \cup { s.peer_id : s \in store }

\* C10: idempotent eviction.  When the service answers, RemovePeerIfExists
\* for a peer that is absent returns success without calling RemovePeer and
\* changes neither the peer set nor the Session Store; a second call for the
\* same peer ends as the first did and changes nothing more.
C10_IdempotentEviction ==
    [][ /\ \A id \in C10_PeerIds :
              /\ ~HasPeer(peers, id) =>
                    /\ RemovePeerIfExistsCheck(peers, id, TRUE) = "return"
                    /\ \A o \in RemovePeerIfExists(peers, id) : o.peers = peers
              /\ \A o1 \in RemovePeerIfExists(peers, id) :
                    ~o1.err =>
                        /\ ~HasPeer(o1.peers, id)
                        /\ \A o2 \in RemovePeerIfExists(o1.peers, id) :
                              o2.peers = o1.peers
                        /\ \E o2 \in RemovePeerIfExists(o1.peers, id) : ~o2.err
        /\ \A it \in C4_Items :
              LET a == reconciler.items[it]
                  b == reconciler'.items[it]
              IN  (a.pc = "has_peer" /\ b.pc # "has_peer" /\ ~HasPeer(peers, it.peer_id)) =>
                      /\ b.pc # "remove_peer"
                      /\ ~b.removed
                      /\ peers' = peers
                      /\ store' = store
      ]_vars

\* The peer of a record is absent from the service: the tick has called
\* RemovePeerIfExists for it, which returned without removing anything, and
\* the record is where it was.
C10_Witness ==
    /\ reconciler.pc = "run"
    /\ \E it \in DOMAIN reconciler.items :
          /\ reconciler.items[it].pc = "done"
          /\ reconciler.items[it].remove
          /\ ~reconciler.items[it].removed
          /\ ~HasPeer(peers, it.peer_id)
          /\ it \in store

----------------------------------------------------------------------------
(* Properties of usage accounting.                                         *)

\* A record is over quota: a byte ceiling is set and reached, or a duration
\* ceiling is set and reached.
C5_OverQuota(s) ==
    \/ GetMaxBytes(s) > 0 /\ GetRxBytes(s) + GetTxBytes(s) >= GetMaxBytes(s)
    \/ s.max_duration > 0 /\ s.duration >= s.max_duration

C5_Items ==
    IF enforcer.pc = "run" /\ enforcer'.pc = "run"
    THEN DOMAIN enforcer.items \cap DOMAIN enforcer'.items
    ELSE {}

\* C5: for a record that is over quota, a session_usage_validate tick
\* removes the record's peer from the service; no step of the worker
\* deletes or modifies a Store record.
C5_EnforcerEvictsOnly ==
    [][ /\ (enforcer' # enforcer /\ restarts' = restarts) => store' = store
        /\ \A it \in C5_Items :
              LET a == enforcer.items[it]
                  b == enforcer'.items[it]
              IN  (a.pc # "done" /\ b.pc = "done" /\ ~enforcer.err /\ C5_OverQuota(it)) =>
                      ~HasPeer(peers', it.peer_id)
        /\ (enforcer.pc = "run" /\ enforcer'.pc = "idle" /\ restarts' = restarts
              /\ ~enforcer.err) =>
              \A it \in DOMAIN enforcer.items : enforcer.items[it].pc = "done"
      ]_vars

\* A record over quota: the tick has removed its live peer and the record is
\* in the Store as the tick loaded it.
C5_Witness ==
    /\ enforcer.pc = "run"
    /\ \E it \in DOMAIN enforcer.items :
          /\ C5_OverQuota(it)
          /\ enforcer.items[it].pc = "done"
          /\ enforcer.items[it].removed
          /\ ~HasPeer(peers, it.peer_id)
          /\ it \in store

\* C9: duration monotonicity.  Over any step the duration of a record does
\* not decrease; it changes only in an update that changes rx_bytes or
\* tx_bytes, and then becomes the time elapsed since created_at; an update
\* that writes the same counters and the steps of another worker leave it
\* as it was.
C9_DurationMonotone ==
    [][ \A s \in store : \A t \in store' :
          t.id = s.id =>
              /\ t.duration >= s.duration
              /\ t.created_at = s.created_at
              /\ (t.rx_bytes # s.rx_bytes \/ t.tx_bytes # s.tx_bytes) =>
                    t.duration = now - s.created_at
              /\ (t.rx_bytes = s.rx_bytes /\ t.tx_bytes = s.tx_bytes) =>
                    t.duration = s.duration
              /\ enforcer' # enforcer => t = s
      ]_vars

\* A record whose duration was set by a counter change and that a later
\* update, writing the same counters, has left with that duration.
C9_Witness ==
    \E s \in store :
        /\ s.duration > 0
        /\ s.updated_at > s.created_at + s.duration

----------------------------------------------------------------------------
(* Properties of the ledger writes.                                        *)

\* C7: batch idempotence.  A session_usage_sync_with_blockchain tick that
\* starts after a tick that succeeded, with no counter of the Store changed
\* since that tick read the Store, builds no update message and submits no
\* transaction.
C7_BatchIdempotence ==
    (publisher.pc # "idle" /\ publisher.clean) =>
        /\ publisher.msgs = << >>
        /\ publisher.pc # "submitted"
        /\ "publisher" \notin inflight

\* The ledger has recorded the usage of a session from an earlier tick; the
\* next tick, with no counter changed, has gone through every record and is
\* about to call BroadcastTx with no message.
C7_Witness ==
    /\ publisher.pc = "broadcast"
    /\ publisher.clean
    /\ publisher.msgs = << >>
    /\ \E s \in store :
          /\ GetRxBytes(s) > 0
          /\ ledger[s.id] # Nil
          /\ ledger[s.id].upload = GetRxBytes(s)

\* C8: at most one ledger-writing submission is in flight at any time, and
\* the caller in flight holds the transaction mutex from its submission
\* until the confirmation or failure of its transaction.
C8_OneWriteInFlight ==
    /\ Cardinality(inflight) <= 1
    /\ \A c \in inflight : txm = c

\* The node status worker has a transaction in flight while the
\* session_usage_sync_with_blockchain worker is at BroadcastTx with a
\* message to submit.
C8_Witness ==
    /\ inflight = {"status"}
    /\ publisher.pc = "broadcast"
    /\ Len(publisher.msgs) > 0

----------------------------------------------------------------------------
(* Properties of the limits check.                                         *)

\* The quota condition of a record, from its columns.
C11_Quota(s) ==
    \/ NewIntFromString(s.max_bytes) # 0
         /\ NewIntFromString(s.rx_bytes) + NewIntFromString(s.tx_bytes)
               >= NewIntFromString(s.max_bytes)
    \/ s.max_duration # 0 /\ s.duration >= s.max_duration

C11_Unlimited(s) == NewIntFromString(s.max_bytes) = 0 /\ s.max_duration = 0

\* C11: a session_usage_validate tick calls RemovePeerIfExists for a record
\* exactly when a byte ceiling is set and rx_bytes + tx_bytes has reached it,
\* or a duration ceiling is set and the duration has reached it; the peer of
\* a record with neither ceiling is never removed by the worker.
C11_EnforcerTriggersExactly ==
    [][ /\ \A it \in C5_Items :
              LET a == enforcer.items[it]
                  b == enforcer'.items[it]
              IN  /\ (a.pc = "new" /\ b.pc # "new" /\ ~enforcer.err) =>
                        /\ C11_Quota(it) =>
                              IF HasPeer(peers, it.peer_id)
                              THEN b.pc \in {"remove_peer", "failed"}
                              ELSE b.pc \in {"done", "failed"}
                        /\ ~C11_Quota(it) => b.pc = "done"
                  /\ (b.pc \in {"remove_peer", "failed"} \/ b.removed) => C11_Quota(it)
                  /\ C11_Unlimited(it) =>
                        b.pc \in {"new", "done"} /\ ~b.removed
        /\ (enforcer' # enforcer /\ restarts' = restarts /\ peers' # peers) =>
              \E it \in C5_Items :
                  /\ C11_Quota(it)
                  /\ enforcer.items[it].pc = "remove_peer"
                  /\ peers' = RemovePeer(peers, it.peer_id)
      ]_vars

\* A record with neither ceiling has counted traffic and time; the tick has
\* checked it and its peer is still live.
C11_Witness ==
    /\ enforcer.pc = "run"
    /\ \E it \in DOMAIN enforcer.items :
          /\ C11_Unlimited(it)
          /\ GetTotalBytes(it) >= MaxTraffic
          /\ it.duration >= MaxTime
          /\ enforcer.items[it].pc = "done"
          /\ HasPeer(peers, it.peer_id)

----------------------------------------------------------------------------
(* Properties of the admission checks.                                     *)

\* What the ledger says of a session at this moment, from the ledger state.
C12_Admissible(id, acc) ==
    /\ id \in LocalIds
    /\ ledger[id] # Nil
    /\ ledger[id].status = StatusActive
    /\ LedgerNodeAddress(id) = NodeAddr
    /\ LedgerAccAddress(id) = acc

\* C12: a record is created only for a session that, at the handler's
\* ledger query, exists on the ledger, is active, is bound to this node and
\* belongs to the requesting account; in every other case the request is
\* answered with an error and no record is created.
C12_OnlyAdmissibleSessions ==
    [][ /\ \A r \in Reqs :
              LET a == req[r]
                  b == req'[r]
              IN  /\ (a.pc = "query" /\ b # a) =>
                        /\ store' = store /\ peers' = peers
                        /\ IF C12_Admissible(a.id, a.acc)
                           THEN b.pc = "add_peer" \/ (b.pc = "done" /\ b.code = 500)
                           ELSE b.pc = "done" /\ b.code \in {400, 401, 404, 500}
                  /\ (b.pc \in {"add_peer", "insert"} /\ b # a) =>
                        /\ b.id \in LocalIds
                        /\ LedgerNodeAddress(b.id) = NodeAddr
                        /\ LedgerAccAddress(b.id) = b.acc
                        /\ a.pc = "query" => C12_Admissible(a.id, a.acc)
                        /\ a.pc # "query" => a.pc = "add_peer" /\ b.pc = "insert"
        /\ \A s \in store' \ store :
              /\ LedgerNodeAddress(s.id) = NodeAddr
              /\ \E r \in Reqs : /\ req[r].pc = "insert"
                                  /\ req[r].id = s.id
                                  /\ req[r].acc = LedgerAccAddress(s.id)
                                  /\ req'[r].code = 200
      ]_vars

\* A session has been admitted; a later request made by an account that
\* does not own its session has been answered 401 and has left no record.
C12_Witness ==
    /\ req["r1"].pc = "done" /\ req["r1"].code = 401
    /\ Cardinality(store) = 1
    /\ PeersLen(peers) = 1

\* C13: an admission request that arrives when the service has max-peers
\* peers or more is answered 409 at once: the handler makes no Store lookup,
\* no ledger query and no AddPeer call for it.
C13_PeerLimitFirst ==
    [][ \A r \in Reqs :
          LET a == req[r]
              b == req'[r]
          IN  /\ (admissions' # admissions /\ b # a /\ PeersLen(peers) >= MaxPeers) =>
                    /\ b.pc = "done" /\ b.code = 409
                    /\ store' = store /\ peers' = peers
              /\ (admissions' # admissions /\ a.pc = "done" /\ b = a) =>
                    \/ \E o \in Reqs : o # r /\ req'[o] # req[o]
                    \/ a.code \in {400, 409}
              /\ (b.pc \in {"check_id", "check_peer", "query", "add_peer"} /\ b # a
                    /\ a.pc \in {"idle", "done"}) =>
                    /\ admissions' = admissions + 1
                    /\ PeersLen(peers) < MaxPeers
                    /\ b.pc = "check_id"
      ]_vars

\* The service is at its peer limit, one of its peers without a record, and
\* the request that arrived then has been answered 409.
C13_Witness ==
    /\ req["r1"].pc = "done" /\ req["r1"].code = 409
    /\ PeersLen(peers) >= MaxPeers
    /\ Cardinality(store) < PeersLen(peers)

\* C14: an admission request whose peer id already belongs to a record is
\* answered 409 by the handler's duplicate check, before AddPeer is called,
\* also when its session id and its payload are not those of the record.
C14_KnownPeerRejectedEarly ==
    [][ \A r \in Reqs :
          LET a == req[r]
              b == req'[r]
              known == \E s \in store : s.peer_id = PeerIdOf(a.data, serviceType)
          IN  /\ (a.pc = "check_peer" /\ b # a /\ known) => b.pc = "done"
              /\ (a.pc = "add_peer" /\ b # a /\ known) => peers' = peers /\ b.pc = "done"
      ]_vars

----------------------------------------------------------------------------
(* Properties of the service-type check of session_validate.               *)

\* C15, as the worker behaves: for a record whose service_type is not the
\* node's active service type a session_validate tick never calls
\* RemovePeerIfExists, whatever the ledger reports for its session; the
\* record is still deleted when the ledger has no session for it.
C15_OtherServiceTypeSkipped ==
    [][ \A it \in C4_Items :
          LET a == reconciler.items[it]
              b == reconciler'.items[it]
              session == LedgerSession(ledger, it.id)
          IN  it.service_type # serviceType =>
                  /\ ~b.remove /\ ~b.removed
                  /\ b.pc \notin {"has_peer", "remove_peer"}
                  /\ (a.pc = "new" /\ b.pc \notin {"new", "failed"} /\ ~reconciler.err) =>
                        /\ b.delete <=> session = Nil
                        /\ b.pc = IF session = Nil THEN "delete" ELSE "done"
                  /\ b # a => peers' = peers
      ]_vars

\* C15, as stated: a session_validate tick calls RemovePeerIfExists for a
\* record whose service_type is not the node's active service type, whatever
\* the ledger reports for its session.
C15_OtherServiceTypeEvicted ==
    [][ \A it \in C4_Items :
          LET a == reconciler.items[it]
              b == reconciler'.items[it]
          IN  ( /\ it.service_type # serviceType
                /\ a.pc = "new" /\ b.pc \notin {"new", "failed"}
                /\ ~reconciler.err )
                => b.remove /\ b.pc = "has_peer"
      ]_vars

\* After a restart with another service type the tick has gone through a
\* record of the former type whose session the ledger reports as ended: no
\* removal was requested and the record is in place.
C15_Witness ==
    /\ reconciler.pc = "run"
    /\ \E it \in DOMAIN reconciler.items :
          /\ it.service_type # serviceType
          /\ reconciler.items[it].pc = "done"
          /\ ~reconciler.items[it].remove
          /\ ledger[it.id] # Nil
          /\ ledger[it.id].status = StatusInactive
          /\ it \in store

----------------------------------------------------------------------------
(* Properties of the session_usage_sync_with_blockchain worker.            *)

C16_Items ==
    IF publisher.pc = "run" /\ publisher'.pc = "run"
    THEN DOMAIN publisher.items \cap DOMAIN publisher'.items
    ELSE {}

\* C16: in a session_usage_sync_with_blockchain tick a record gets an update
\* message if and only if the ledger reports its session and the usage the
\* ledger has recorded differs from the record's counters; a difference in
\* rx_bytes alone or in tx_bytes alone is enough.
C16_PublishedIffNewUsage ==
    [][ \A it \in C16_Items :
          LET a == publisher.items[it]
              b == publisher'.items[it]
              session == LedgerSession(ledger, it.id)
              fresh == /\ session # Nil
                       /\ \/ session.upload # NewIntFromString(it.rx_bytes)
                          \/ session.download # NewIntFromString(it.tx_bytes)
              added == /\ Len(publisher'.msgs) = Len(publisher.msgs) + 1
                       /\ publisher'.msgs[Len(publisher'.msgs)].id = it.id
          IN  (a.pc = "query" /\ b.pc = "done") => (added <=> fresh)
      ]_vars

\* C17: a session_usage_sync_with_blockchain tick calls BroadcastTx at most
\* once, after all its sub-operations, with every message it has built; the
\* messages go into one transaction, and the tick ends when that
\* transaction is confirmed or fails.
C17_OneBatchPerTick ==
    [][ /\ (publisher'.pc = "run" /\ publisher.pc = "run") =>
              /\ Len(publisher'.msgs) >= Len(publisher.msgs)
              /\ SubSeq(publisher'.msgs, 1, Len(publisher.msgs)) = publisher.msgs
              /\ "publisher" \notin inflight'
        /\ (publisher'.pc = "broadcast" /\ publisher.pc # "broadcast") =>
              /\ publisher.pc = "run"
              /\ Finished(publisher)
              /\ publisher'.msgs = publisher.msgs
        /\ (publisher'.pc = "locked" /\ publisher.pc # "locked") =>
              publisher.pc = "broadcast" /\ publisher'.msgs = publisher.msgs
        /\ (publisher.pc = "locked" /\ publisher' # publisher) =>
              \/ /\ publisher'.pc = "submitted"
                 /\ publisher'.msgs = publisher.msgs
                 /\ Len(publisher.msgs) > 0
                 /\ inflight' = inflight \cup {"publisher"}
              \/ /\ publisher' = IdleWorker
                 /\ Len(publisher.msgs) = 0
                 /\ inflight' = inflight
        /\ (publisher.pc = "submitted" /\ publisher' # publisher) =>
              /\ publisher' = IdleWorker
              /\ inflight' = inflight \ {"publisher"}
              /\ ledger' \in {ledger, ApplyMsgs(ledger, publisher.msgs)}
        /\ "publisher" \in inflight' \ inflight => publisher.pc = "locked"
        /\ ledger' # ledger => publisher.pc = "submitted"
        /\ \A i, j \in DOMAIN publisher.msgs :
              publisher.msgs[i].id = publisher.msgs[j].id => i = j
      ]_vars

\* Two sessions have new usage: the tick has one transaction in flight and
\* it carries the update messages of both.
C17_Witness ==
    /\ publisher.pc = "submitted"
    /\ inflight = {"publisher"}
    /\ { publisher.msgs[i].id : i \in DOMAIN publisher.msgs } = LocalIds

----------------------------------------------------------------------------
(* Properties of the Store's find-one operations and of their callers.     *)

C18_Items ==
    IF collector.pc = "run" /\ collector'.pc = "run"
    THEN DOMAIN collector.items \cap DOMAIN collector'.items
    ELSE {}

\* C18: a session_usage_sync_with_database tick that finds a peer of the
\* service with no record skips the peer: the sub-operation ends without an
\* error, and the tick goes on to update the records of the other peers.
C18_MissingRecordSkipped ==
    [][ \A p \in C18_Items :
          LET a == collector.items[p]
              b == collector'.items[p]
          IN  (a.pc = "new" /\ b.pc # "new" /\ b.missing) =>
                  /\ b.pc = "done"
                  /\ collector'.err = collector.err
      ]_vars

\* Queries the callers make: by session id and by peer id.
C19_Queries ==
    { [ id |-> i ] : i \in SessionIds } \cup
    { [ peer_id |-> PeerIdOf(d, t) ] : d \in Payloads, t \in ServiceTypes }

C19_Updates ==
    { [ rx_bytes |-> IntString(rxBytes), tx_bytes |-> IntString(txBytes),
        set_duration |-> FALSE, duration |-> 0 ] : rxBytes, txBytes \in 0..MaxTraffic }

\* C19: SessionFindOneAndUpdate and SessionFindOneAndDelete called with a
\* query that matches no record return an empty result without an error and
\* leave the Store as it was.
C19_NotFoundIsSuccess ==
    \A q \in C19_Queries :
        SessionFindOne(store, q) = Nil =>
            /\ \A u \in C19_Updates :
                  LET res == SessionFindOneAndUpdate(store, q, u, now)
                  IN  ~res.err /\ res.session = Nil /\ res.store = store
            /\ LET res == SessionFindOneAndDelete(store, q)
               IN  ~res.err /\ res.session = Nil /\ res.store = store

\* C20: SessionFindOneAndUpdate is atomic with respect to the other callers
\* of the Store: between its read of the matched record and its update no
\* other caller's write to that record takes effect, and the update is
\* applied to the record as it was read.
C20_FindOneAndUpdateAtomic ==
    [][ \A p \in C18_Items :
          LET a == collector.items[p]
              b == collector'.items[p]
              matched(st) == { r \in st : r.id = a.session.id }
          IN  a.pc = "update" =>
                  /\ b.pc = "update" => matched(store') = matched(store)
                  /\ b.pc = "done" => a.session \in store
      ]_vars

----------------------------------------------------------------------------
(* Properties of BroadcastTx and of the Store's writers.                   *)

\* C21: BroadcastTx called with no message returns nil and submits no
\* transaction: the mutex is released, nothing is in flight for the caller
\* and the ledger is as it was.
C21_EmptyBatchIsNoOp ==
    [][ /\ (publisher.pc = "locked" /\ Len(publisher.msgs) = 0
              /\ publisher' # publisher) =>
              /\ publisher' = IdleWorker
              /\ published'
              /\ txm' = NoHolder
              /\ inflight' = inflight
              /\ ledger' = ledger
        /\ "publisher" \in inflight' => Len(publisher'.msgs) > 0
        /\ publisher'.pc = "submitted" => Len(publisher'.msgs) > 0
      ]_vars

\* A tick with nothing to report has returned from BroadcastTx without an
\* error: the ledger has recorded no usage, the mutex is free.
C21_Witness ==
    /\ published
    /\ publisher.pc = "idle"
    /\ txm = NoHolder
    /\ inflight = {}
    /\ \A id \in LocalIds : ledger[id] # Nil /\ ledger[id].upload = 0

\* The columns of a record that no worker changes.
C22_Fixed(s) ==
    [ id |-> s.id, node_addr |-> s.node_addr, peer_id |-> s.peer_id,
      peer_request |-> s.peer_request, service_type |-> s.service_type,
      max_bytes |-> s.max_bytes, max_duration |-> s.max_duration,
      created_at |-> s.created_at ]

\* C22: single-writer discipline.  A record enters the Store only by the
\* insert of the handshake handler; rx_bytes, tx_bytes and duration change
\* only in the update of session_usage_sync_with_database; a record leaves
\* the Store only by the delete of session_validate; no step of
\* session_usage_validate or of session_usage_sync_with_blockchain changes
\* the Store.
C22_SingleWriter ==
    [][ /\ (\E t \in store' : \A s \in store : s.id # t.id) =>
              /\ \E r \in Reqs : req[r].pc = "insert" /\ req'[r].code = 200
              /\ UNCHANGED << collector, publisher, enforcer, reconciler >>
        /\ (\E s \in store : \E t \in store' :
                /\ t.id = s.id
                /\ \/ t.rx_bytes # s.rx_bytes
                   \/ t.tx_bytes # s.tx_bytes
                   \/ t.duration # s.duration) =>
              /\ \E p \in C18_Items : /\ collector.items[p].pc = "update"
                                       /\ collector'.items[p].pc = "done"
              /\ UNCHANGED << req, publisher, enforcer, reconciler >>
        /\ (\E s \in store : \A t \in store' : t.id # s.id) =>
              /\ \E it \in C4_Items : /\ reconciler.items[it].pc = "delete_row"
                                       /\ reconciler'.items[it].pc = "done"
              /\ UNCHANGED << req, collector, publisher, enforcer >>
        /\ \A s \in store : \A t \in store' :
              t.id = s.id => C22_Fixed(t) = C22_Fixed(s)
        /\ enforcer' # enforcer => store' = store
        /\ publisher' # publisher => store' = store
      ]_vars

\* Every party has acted on one record: the handler inserted it, the
\* Collector wrote its counters, a Publisher tick has returned without an
\* error, the Enforcer removed its peer for the byte ceiling, and the
\* Reconciler is about to delete it.
C22_Witness ==
    /\ \E s \in store :
          /\ GetRxBytes(s) > 0
          /\ GetTotalBytes(s) >= GetMaxBytes(s)
          /\ s \in DOMAIN enforcer.items
          /\ enforcer.items[s].removed
          /\ s \in DOMAIN reconciler.items
          /\ reconciler.items[s].pc = "delete"
    /\ published

----------------------------------------------------------------------------
(* The scheduler from start to stop.                                        *)

NextScheduler ==
    \/ \E j \in JobNames : JobTick(j)
    \/ \E j \in JobNames, err \in BOOLEAN : JobReturn(j, err)
    \/ SchedulerStop
    \/ \E j \in JobNames : JobExit(j)
    \/ SchedulerStopReturn
    \/ SchedulerWaitReturn

SpecScheduler == Init /\ [][NextScheduler]_vars

\* Two of the jobs with the timers firing and the handlers returning: a
\* delay that has started elapses, an invocation that has started returns.
RetryJobs == { "session_usage_sync_with_blockchain", "session_validate" }

NextRetry ==
    \/ \E j \in RetryJobs : JobTick(j)
    \/ \E j \in RetryJobs, err \in BOOLEAN : JobReturn(j, err)
    \/ SchedulerStop
    \/ \E j \in JobNames : JobExit(j)
    \/ SchedulerStopReturn
    \/ SchedulerWaitReturn
    \/ Tick

SpecRetry ==
    /\ Init /\ [][NextRetry]_vars
    /\ \A j \in RetryJobs :
         /\ WF_vars(JobTick(j))
         /\ WF_vars(\E err \in BOOLEAN : JobReturn(j, err))

\* C23: the scheduler never has two invocations of the same job in
\* progress: a delay of the job that elapses while its invocation is still
\* running starts nothing, whatever the other jobs are doing.
C23_ReentrancyBarrier ==
    \A j \in JobNames : scheduler.jobs[j].running <= 1

\* Two different jobs are running at the same time, and a delay of one of
\* them has elapsed in the meantime and was skipped.
C23_Witness ==
    \E j, k \in JobNames :
        /\ j # k
        /\ scheduler.jobs[j].running = 1
        /\ scheduler.jobs[k].running = 1
        /\ scheduler.jobs[j].skipped

\* C24: an error of a handler leaves the scheduler as it was and the loop of
\* every other job as it was; the failed job waits for its retry delay, is
\* invoked again (unless the scheduler is stopped first) and waits for its
\* normal interval from then on; whatever has failed, every job keeps
\* being invoked while the scheduler is started.
C24_ErrorIsRetried ==
    /\ [][ \A j \in JobNames :
             /\ ( /\ scheduler'.jobs[j].running < scheduler.jobs[j].running
                  /\ scheduler'.jobs[j].last = "error" )
                => /\ scheduler'.jobs[j].wait = "retry"
                   /\ ~scheduler'.jobs[j].exited
                   /\ scheduler'.state = scheduler.state
                   /\ \A k \in JobNames \ {j} :
                        scheduler'.jobs[k] = scheduler.jobs[k]
             /\ ( /\ scheduler.jobs[j].wait = "retry"
                  /\ scheduler'.jobs[j].running > scheduler.jobs[j].running )
                => /\ scheduler'.jobs[j].after = "retry"
                   /\ scheduler'.jobs[j].wait = "interval" ]_vars
    /\ \A j \in RetryJobs :
         ( scheduler.jobs[j].running = 0 /\ scheduler.jobs[j].wait = "retry" )
           ~> ( \/ scheduler.jobs[j].running = 1 /\ scheduler.jobs[j].after = "retry"
                \/ scheduler.state # "started" )
    /\ \A j, k \in RetryJobs :
         ( j # k /\ scheduler.jobs[j].last = "error" /\ scheduler.jobs[k].running = 0 )
           ~> ( scheduler.jobs[k].running = 1 \/ scheduler.state # "started" )

\* A job that failed is running again after its retry delay while another
\* job, started after the failure, is running too.
C24_Witness ==
    \E j, k \in JobNames :
        /\ j # k
        /\ scheduler.state = "started"
        /\ scheduler.jobs[j].last = "error"
        /\ scheduler.jobs[j].running = 1
        /\ scheduler.jobs[j].after = "retry"
        /\ scheduler.jobs[k].running = 1
        /\ scheduler.jobs[k].last = "ok"

\* C25: Stop returns only when no invocation is in progress, no invocation
\* starts once Stop has returned, and Wait returns only when the loop of
\* every job has exited.
C25_StopAndWait ==
    /\ []( scheduler.state = "stopped"
             => \A j \in JobNames : scheduler.jobs[j].running = 0 )
    /\ []( scheduler.waited => \A j \in JobNames : scheduler.jobs[j].exited )
    /\ [][ scheduler.state = "stopped"
             => \A j \in JobNames :
                  scheduler'.jobs[j].running <= scheduler.jobs[j].running ]_vars

\* Stop and Wait have returned on a scheduler whose jobs have all been
\* invoked, one of them with an error.
C25_Witness ==
    /\ scheduler.state = "stopped"
    /\ scheduler.waited
    /\ \A j \in JobNames : scheduler.jobs[j].last # "none"
    /\ \E j \in JobNames : scheduler.jobs[j].last = "error"

----------------------------------------------------------------------------
(* The status of the handshake endpoint.                                   *)

\* C26: the status the handler answers with follows from the outcome of the
\* request: 200 when the record was inserted, 404 when the ledger has no
\* such session, 401 when the account is not the session's, 400 for a
\* request the handler does not accept as valid, 409 for a peer limit or a
\* session id or peer that a record already has, and a request whose
\* session id or peer is recorded gets that 409 unless the Store fails
\* during the duplicate checks; 500 in every other case.
C26_StatusByOutcome ==
    [][ \A r \in Reqs :
          LET a == req[r]
              b == req'[r]
              parsed == a.pc \notin {"idle", "done"}
              session == LedgerSession(ledger, a.id)
              dup == \E s \in store : s.id = a.id
              known == \E s \in store : s.peer_id = PeerIdOf(a.data, serviceType)
          IN  (b # a /\ b.pc = "done") =>
                /\ b.code \in {200, 400, 401, 404, 409, 500, 502}
                /\ b.code = 200 <=> (a.pc = "insert" /\ store' # store)
                /\ b.code = 404 => (a.pc = "query" /\ session = Nil)
                /\ b.code = 401 =>
                     (a.pc = "query" /\ session # Nil /\ a.acc # session.acc)
                /\ b.code = 400 =>
                     \/ ~parsed
                     \/ /\ a.pc = "query" /\ session # Nil
                        /\ session.status # StatusActive \/ session.node # NodeAddr
                /\ b.code = 409 =>
                     \/ ~parsed /\ PeersLen(peers) >= MaxPeers
                     \/ a.pc = "check_id" /\ dup
                     \/ a.pc = "check_peer" /\ known
                /\ (parsed /\ (dup \/ known)) =>
                     \/ b.code = 409
                     \/ b.code = 500 /\ a.pc \in {"check_id", "check_peer"}
      ]_vars

----------------------------------------------------------------------------
(* The peer limit under concurrent admissions: two handler invocations,    *)
(* three keys, a limit of MaxPeers.                                        *)

NextLimit ==
    \/ \E r \in Reqs : HandshakeBegin(r, LocalIds, {"d1", "d3", "d4"}, {"acc1"})
    \/ \E r \in Reqs : HandshakeSteps(r)

SpecLimit == Init /\ [][NextLimit]_vars

\* C27: the service never has more than max-peers peers, however the
\* admission requests interleave.
C27_PeerLimitHolds ==
    PeersLen(peers) <= MaxPeers

----------------------------------------------------------------------------
(* Admission after an eviction: one handler invocation at a time with two  *)
(* encodings of one key, traffic, the session_usage_sync_with_database     *)
(* worker and the session_usage_validate worker.                           *)

NextReadmit ==
    \/ HandshakeBegin("r1", LocalIds, {"d1", "d2"}, {"acc1"})
    \/ HandshakeSteps("r1")
    \/ Traffic
    \/ Collector
    \/ Enforcer

SpecReadmit == Init /\ [][NextReadmit]_vars

\* C29: the peer of a recorded session that is over its limits and has been
\* evicted does not become live again while the record exists, whatever
\* admission requests arrive.
C29_EvictedStaysOut ==
    [][ \A s \in store :
          ( /\ ExceedsLimits(s)
            /\ ~HasPeer(peers, s.peer_id)
            /\ \E n \in store' : n.id = s.id )
          => ~HasPeer(peers', s.peer_id) ]_vars

----------------------------------------------------------------------------
(* Reconciliation with one record that cannot be reconciled: admissions    *)
(* of two sessions, the ledger dropping session 2, and session_validate    *)
(* ticks in which the ledger query for session 1 fails every time and no   *)
(* other call fails.  The ticks keep coming and every sub-operation that   *)
(* has been started runs to its end.                                       *)

ReconcilerStep ==
    \/ ReconcilerStart /\ reconciler'.pc = "run"
    \/ \E item \in DOMAIN reconciler.items :
         /\ \/ ReconcilerQuery(item)
            \/ ReconcilerHasPeer(item)
            \/ ReconcilerRemovePeer(item)
            \/ ReconcilerFind(item)
            \/ ReconcilerDelete(item)
         /\ IF item.id = 1
            THEN reconciler.err \/ reconciler'.items[item].pc = "failed"
            ELSE reconciler'.items[item].pc # "failed"
    \/ ReconcilerWait

NextIsolation ==
    \/ HandshakeBegin("r1", LocalIds, {"d1", "d3"}, {"acc1"})
    \/ HandshakeSteps("r1")
    \/ LedgerChange /\ ledger'[1] = ledger[1] /\ ledger'[2] = Nil
    \/ ReconcilerStep

SpecIsolation ==
    /\ Init /\ [][NextIsolation]_vars
    /\ WF_vars(ReconcilerStep)

\* C30: a record whose ledger session is gone is eventually deleted, its
\* peer removed, also when the sub-operation of another record fails in
\* every tick.
C30_OthersStillReconciled ==
    \A id \in LocalIds \ {1} :
        ( (\E s \in store : s.id = id) /\ ledger[id] = Nil )
          ~> ( \A s \in store : s.id # id )

----------------------------------------------------------------------------
(* The tick after a failed broadcast.                                      *)

\* Two sessions, the first with traffic in both directions, the second
\* with one incoming byte, the session_usage_sync_with_database worker and
\* the session_usage_sync_with_blockchain worker.
NextRebuild ==
    \/ HandshakeBegin("r1", LocalIds, {"d1", "d3"}, {"acc1"}) /\ admissions < 2
    \/ HandshakeSteps("r1")
    \/ Traffic /\ \A p \in DOMAIN peers' :
                    /\ peers'[p].rx <= 1
                    /\ p[2] = "kB" => peers'[p].tx = 0
    \/ Collector
    \/ Publisher

SpecRebuild == Init /\ [][NextRebuild]_vars

\* The ledger knows the session of the record and its usage is not the
\* record's.
C31_Differs(item) ==
    LET session == LedgerSession(ledger, item.id)
    IN  /\ session # Nil
        /\ \/ session.upload # GetRxBytes(item)
           \/ session.download # GetTxBytes(item)

\* C31: a session_usage_sync_with_blockchain tick whose broadcast fails ends
\* there, with its messages dropped and nothing in flight; the tick that
\* follows loads the records as the Store has them then and, once all its
\* sub-operations have returned without an error, holds a message with the
\* record's rx_bytes, tx_bytes and duration for every record whose usage
\* differs from the ledger's.
C31_WholeBatchRebuilt ==
    [][ /\ (publisher.pc = "submitted" /\ publisher' # publisher /\ rejected') =>
              /\ publisher' = IdleWorker
              /\ "publisher" \notin inflight'
              /\ ledger' = ledger
        /\ (rejected /\ publisher.pc = "idle" /\ publisher'.pc = "run") =>
              DOMAIN publisher'.items = SessionFind(store, [ node_addr |-> NodeAddr ])
        /\ (rejected /\ publisher.pc = "run" /\ publisher'.pc = "broadcast") =>
              \A it \in DOMAIN publisher.items :
                  C31_Differs(it) =>
                      \E i \in DOMAIN publisher'.msgs :
                          publisher'.msgs[i] = MsgUpdateSessionRequest(it)
      ]_vars

----------------------------------------------------------------------------
(* Properties of the session_usage_sync_with_database worker.              *)

\* C32: over any step the rx_bytes and the tx_bytes of a record do not
\* decrease.
C32_CountersMonotone ==
    [][ \A s \in store, n \in store' :
          n.id = s.id =>
              /\ GetRxBytes(n) >= GetRxBytes(s)
              /\ GetTxBytes(n) >= GetTxBytes(s) ]_vars

\* C33: a sub-operation of a session_usage_sync_with_database tick whose
\* statistics were last updated more than the collection interval ago ends
\* at once and leaves the Store, hence the record's rx_bytes, tx_bytes and
\* duration, as it was.
C33_StaleSkipped ==
    [][ \A p \in DOMAIN collector.items \cap DOMAIN collector'.items :
          LET a == collector.items[p]
              b == collector'.items[p]
          IN  ( /\ collector.pc = "run" /\ collector'.pc = "run"
                /\ a.pc = "new" /\ b # a
                /\ now - a.stats.updated_at > CollectInterval )
              => /\ b.pc = "done"
                 /\ ~collector'.err
                 /\ store' = store ]_vars

\* The tick has skipped a peer whose statistics are stale: the peer has
\* moved bytes that its record does not show.
C33_Witness ==
    /\ collector.pc = "run"
    /\ \E p \in DOMAIN collector.items :
          /\ collector.items[p].pc = "done"
          /\ now - collector.items[p].stats.updated_at > CollectInterval
          /\ \E s \in store :
                /\ s.peer_id = p
                /\ GetRxBytes(s) + GetTxBytes(s)
                     < collector.items[p].stats.rx + collector.items[p].stats.tx

----------------------------------------------------------------------------
(* The workers at shutdown: two admitted sessions, the four session        *)
(* workers interleaved step by step, at most two of them in a tick at the  *)
(* same time, the ledger dropping session 1 and the scheduler being        *)
(* stopped at any moment.  A tick starts only while the Store holds both   *)
(* records and the scheduler is not stopped, so that every tick fans out   *)
(* to two sub-operations.  Session 1 carries the traffic: it is the one    *)
(* with a byte ceiling.                                                    *)

\* The four fan-out workers.
C34_Workers == << collector, publisher, enforcer, reconciler >>

\* The number of workers that are in a tick.
C34_Running == Cardinality({ i \in 1..4 : C34_Workers[i].pc # "idle" })

\* A tick may start.
C34_MayStart == ~Cancelled /\ Cardinality(store) = 2 /\ C34_Running < 2

NextShutdown ==
    \/ /\ HandshakeBegin("r1", {admissions + 1},
                          {IF admissions = 0 THEN "d1" ELSE "d3"}, {"acc1"})
       /\ admissions < 2
    \/ HandshakeSteps("r1")
    \/ Traffic /\ \A p \in DOMAIN peers' :
                    peers'[p].tx = 0 /\ (p[2] # "kA" => peers'[p].rx = 0)
    \/ LedgerChange /\ ledger'[1] = Nil /\ ledger'[2] = ledger[2]
    \/ Collector /\ (collector.pc = "idle" => C34_MayStart)
    \/ Publisher /\ (publisher.pc = "idle" => C34_MayStart)
    \/ Enforcer /\ (enforcer.pc = "idle" => C34_MayStart)
    \/ Reconciler /\ (reconciler.pc = "idle" => C34_MayStart)
    \/ SchedulerStop

SpecShutdown == Init /\ [][NextShutdown]_vars

\* C34: a tick of a fan-out worker returns only when every sub-operation it
\* started has returned; a sub-operation that begins after the cancellation
\* signal (the scheduler being stopped, or another sub-operation's error)
\* ends at once without touching the Store, the ledger or the service; and
\* every step that changes the Store either inserts the handler's record,
\* deletes one record, or replaces one record by one with the same id whose
\* rx_bytes and tx_bytes are both those of one statistics reading.
C34_FanOut ==
    [][ /\ \A i \in 1..4 :
             LET w == C34_Workers[i]
                 v == C34_Workers'[i]
             IN  /\ (w.pc = "run" /\ v.pc # "run") =>
                      \A k \in DOMAIN w.items : w.items[k].pc \in {"done", "failed"}
                 /\ \A k \in DOMAIN w.items \cap DOMAIN v.items :
                      ( /\ w.pc = "run" /\ v.pc = "run"
                        /\ w.items[k].pc = "new" /\ v.items[k] # w.items[k]
                        /\ (w.err \/ scheduler.state # "started") )
                      => /\ v.items[k].pc = "done"
                         /\ v.msgs = w.msgs
                         /\ store' = store /\ peers' = peers /\ ledger' = ledger
                         /\ tx' = tx /\ inflight' = inflight
        /\ store' # store =>
             \/ \E r \in Reqs : req[r].pc = "insert" /\ req'[r] # req[r]
             \/ \E s \in store : store' = store \ {s}
             \/ \E s \in store, p \in DOMAIN collector.items :
                  /\ s.peer_id = p
                  /\ collector.items[p].pc = "update"
                  /\ \E n \in store' :
                       /\ store' = (store \ {s}) \cup {n}
                       /\ n.id = s.id /\ n.peer_id = s.peer_id
                       /\ n.rx_bytes = IntString(collector.items[p].stats.rx)
                       /\ n.tx_bytes = IntString(collector.items[p].stats.tx)
      ]_vars

\* A tick of session_usage_sync_with_blockchain over two records, the
\* scheduler running: the sub-operation of one record has failed, and the
\* sub-operation of the other, whose counters the ledger does not have yet,
\* began after that and has ended without a message.
C34_Witness ==
    /\ scheduler.state = "started"
    /\ publisher.pc = "run"
    /\ publisher.err
    /\ publisher.msgs = << >>
    /\ \E s, t \in DOMAIN publisher.items :
         /\ s # t
         /\ publisher.items[t].pc = "failed"
         /\ publisher.items[s].pc = "done"
         /\ s \in store
         /\ GetRxBytes(s) > 0
         /\ LedgerSession(ledger, s.id) # Nil
         /\ LedgerSession(ledger, s.id).upload = 0

----------------------------------------------------------------------------
(* session_usage_sync_with_blockchain at shutdown: two admitted sessions,  *)
(* traffic, the two usage workers, and the scheduler being stopped at any  *)
(* moment.  No tick starts once the scheduler is stopped.                  *)

NextCancel ==
    \/ HandshakeBegin("r1", LocalIds, {"d1", "d3"}, {"acc1"}) /\ admissions < 2
    \/ HandshakeSteps("r1")
    \/ Traffic /\ \A p \in DOMAIN peers' : peers'[p].rx <= 1 /\ peers'[p].tx = 0
    \/ Collector /\ (collector.pc = "idle" => ~Cancelled)
    \/ Publisher /\ (publisher.pc = "idle" => ~Cancelled)
    \/ SchedulerStop

SpecCancel == Init /\ [][NextCancel]_vars

\* The records of the tick whose usage the ledger does not have.
C35_Due ==
    { it \in DOMAIN publisher.items :
        /\ LedgerSession(ledger, it.id) # Nil
        /\ LedgerSession(ledger, it.id).upload # GetRxBytes(it) }

\* The records of the tick that have a message in the list.
C35_Collected ==
    { it \in DOMAIN publisher.items :
        \E i \in DOMAIN publisher.msgs : publisher.msgs[i].id = it.id }

\* C35: when the scheduler has been stopped during a tick of
\* session_usage_sync_with_blockchain, the handler does not call BroadcastTx
\* with a message list that holds the messages of some of the records due
\* for an update and lacks those of others.
C35_NoPartialBatch ==
    [][ ( /\ publisher.pc = "run"
          /\ publisher'.pc = "broadcast"
          /\ scheduler.state # "started" )
        => ~( /\ C35_Collected # {}
              /\ C35_Due \ C35_Collected # {} ) ]_vars

----------------------------------------------------------------------------
(* The columns of a record that are written once.                          *)

\* C36: a record enters the Store with rx_bytes, tx_bytes and duration zero
\* and with max_bytes and max_duration those of its ledger session, in a
\* step that removes nothing; every other step that changes the Store
\* leaves each record that stays with its id, peer_id, max_bytes and
\* max_duration.
C36_WrittenOnce ==
    [][ \A n \in store' \ store :
          IF \A s \in store : s.id # n.id
          THEN /\ store \subseteq store'
               /\ GetRxBytes(n) = 0 /\ GetTxBytes(n) = 0 /\ n.duration = 0
               /\ GetMaxBytes(n) = LedgerMaxBytes(n.id)
               /\ n.max_duration = LedgerMaxDuration(n.id)
               /\ \E r \in Reqs :
                    /\ req[r].pc = "insert" /\ req[r].id = n.id
                    /\ req[r].max_bytes = GetMaxBytes(n)
                    /\ req[r].max_duration = n.max_duration
          ELSE \E s \in store \ store' :
                 /\ n.id = s.id
                 /\ n.peer_id = s.peer_id
                 /\ n.max_bytes = s.max_bytes
                 /\ n.max_duration = s.max_duration
                 /\ Cardinality(store') = Cardinality(store) ]_vars

\* The record of session 1 carries the ceilings of the ledger session and
\* counters and a duration that session_usage_sync_with_database has written
\* since the insert.
C36_Witness ==
    \E s \in store :
        /\ s.id = 1
        /\ GetMaxBytes(s) = 2 /\ s.max_duration = 2
        /\ GetRxBytes(s) > 0 /\ GetTxBytes(s) > 0
        /\ s.duration > 0

\* The records for which a sub-operation of the tick built a message.
C37_Selected == { it \in DOMAIN publisher.items : publisher.items[it].selected }

\* C37: when the handler of session_usage_sync_with_blockchain calls
\* BroadcastTx, the message list holds the message of every record a
\* sub-operation selected, once, and nothing else, in whatever order the
\* sub-operations ran, and the list stays as it is until the transaction
\* has been submitted.
C37_OneMessageEach ==
    [][ /\ (publisher.pc = "run" /\ publisher'.pc = "broadcast") =>
             /\ publisher'.msgs = publisher.msgs
             /\ Len(publisher.msgs) = Cardinality(C37_Selected)
             /\ \A it \in C37_Selected :
                  \E i \in DOMAIN publisher.msgs :
                      publisher.msgs[i] = MsgUpdateSessionRequest(it)
             /\ \A i \in DOMAIN publisher.msgs :
                  \E it \in C37_Selected :
                      publisher.msgs[i] = MsgUpdateSessionRequest(it)
        /\ (publisher.pc \in {"broadcast", "locked"} /\ publisher'.pc # "idle") =>
             publisher'.msgs = publisher.msgs
      ]_vars

\* BroadcastTx is about to be called with the messages of two records.
C37_Witness ==
    /\ publisher.pc = "broadcast"
    /\ Len(publisher.msgs) = 2
    /\ publisher.msgs[1].id # publisher.msgs[2].id

----------------------------------------------------------------------------
(* The fan-out of session_usage_sync_with_blockchain: a node that has      *)
(* restarted with more records in its Store than the group has places.     *)
(* The sub-operations run step by step; the ledger answers every query     *)
(* and has no usage to be told of.                                         *)

\* Number of records in the Store.
FanOutSize == 9

FanOutRecords ==
    { NewSession(i, i, << "wireguard", i >>, "wireguard",
                 LedgerMaxBytes(i), LedgerMaxDuration(i), 0) : i \in 1..FanOutSize }

InitFanOut ==
    /\ now = 0
    /\ serviceType = "wireguard"
    /\ restarts = 0
    /\ admissions = 0
    /\ ledger = [ id \in LocalIds |->
                    [ status |-> StatusActive, upload |-> 0, download |-> 0 ] ]
    /\ peers = NoPeers
    /\ store = FanOutRecords
    /\ req = [ r \in Reqs |-> IdleReq ]
    /\ collector = IdleWorker
    /\ publisher = IdleWorker
    /\ enforcer = IdleWorker
    /\ reconciler = IdleWorker
    /\ txm = NoHolder
    /\ tx = IdleTx
    /\ inflight = {}
    /\ dirty = {}
    /\ published = FALSE
    /\ scheduler = NewScheduler
    /\ rejected = FALSE
    /\ core = NewCore

NextFanOut ==
    \/ PublisherStart
    \/ \E item \in DOMAIN publisher.items : PublisherGo(item)
    \/ \E item \in DOMAIN publisher.items : PublisherAnswer(item) /\ ~publisher'.err
    \/ PublisherWait
    \/ PublisherLock
    \/ PublisherSubmit

SpecFanOut == InitFanOut /\ [][NextFanOut]_vars

\* C38: during a tick of session_usage_sync_with_blockchain at most 8
\* ledger session queries are in flight at a time, however many records
\* the Store holds.
C38_AtMostEightQueries ==
    Cardinality({ k \in DOMAIN publisher.items : publisher.items[k].pc = "query" }) <= 8

\* Eight queries are in flight and the sub-operation of a ninth record of
\* the Store is waiting for a place.
C38_Witness ==
    /\ Cardinality(store) > 8
    /\ Cardinality({ k \in DOMAIN publisher.items : publisher.items[k].pc = "query" }) = 8
    /\ \E k \in DOMAIN publisher.items : publisher.items[k].pc = "new"

----------------------------------------------------------------------------
(* The core Context under concurrent getters and setters.                  *)

SpecCore == Init /\ [][Core]_vars

\* A call that has started and cannot take its next step.
C39_Blocked(t) ==
    LET pc == core.calls[t].pc
    IN  \/ pc \in { "Client", "RPCAddr", "RPCAddrs" } /\ core.fm.w # NoHolder
        \/ pc = "Lock" /\ core.fm.w # NoHolder
        \/ pc = "Lock_wait" /\ core.fm.readers # 0

\* C39: concurrent use of the core Context never deadlocks: there is no
\* state in which a getter that holds the read lock waits to take it again
\* while the setter that makes it wait is itself waiting for the readers to
\* leave, so that no call in progress can ever take a step.
C39_NoDeadlock ==
    LET started == { t \in CoreReaders \cup CoreWriters : core.calls[t].pc # "idle" }
    IN  ~( /\ started # {}
           /\ \A t \in started : C39_Blocked(t) )

----------------------------------------------------------------------------
(* BroadcastTx with nothing to send.                                       *)

\* C40: a BroadcastTx call with zero messages never waits for the
\* transaction mutex: there is no state in which the call of a tick with an
\* empty message list stands before c.txm.Lock() while another caller holds
\* the mutex with its transaction in flight.
C40_EmptyCallDoesNotWait ==
    ~( /\ publisher.pc = "broadcast"
       /\ Len(publisher.msgs) = 0
       /\ txm # NoHolder
       /\ txm # "publisher"
       /\ txm \in inflight )

====
